---- MODULE Spec2Model ----
(***************************************************************************)
(* Autotile rule engine of kuviman/bevyjam3 (autotile/src/lib.rs):         *)
(* ConnectionFilter::matches, Tile::tileset_pos, TilesetDef::generate_mesh *)
(* and the colour-coded rule loader load_rules_from_image.                 *)
(***************************************************************************)
EXTENDS Integers, Sequences, FiniteSets, TLC

VARIABLES
    tiles,      \* TilesetDef.tiles : tile name -> Tile
    cells,      \* the TileMap behind get_at : position -> Option<name>
    listed,     \* the sequence the TileMap's non_empty_tiles() produces
    idx,        \* how far the lazy iterator of generate_mesh has been pulled
    mesh,       \* the TexturedTiles yielded so far
    status,     \* "running", "done" or "aborted" (the expect() panic)
    image,      \* the decoded rule image : pixel coordinate -> Rgba
    grid,       \* how many tile_size cells the image holds per axis
    pc,         \* where load_rules_from_image stands
    cell,       \* (x_index, y_index) of the two outer loops
    probe,      \* how many of the nine (dx, dy) were sampled in this cell
    connections,\* the HashMap being filled for this cell
    result,     \* the Vec<Rule> being built
    returned,   \* what the caller got: None so far, Some(Ok rules) or Some(Err)
    config,     \* Config.tiles : tile name -> TileConfig
    original,   \* original_image : width, height and pixels of the source atlas
    expanded,   \* expanded_image : None until allocated, then pixel -> colour
    todo,       \* the names def.tiles.values() has not produced yet
    cur,        \* the tile the outer loop of the builder is in, if any
    ruleIdx,    \* 0 before the tile's default, then the index of the rule
    dir,        \* how many of the nine (dx, dy) of that rule were visited
    apc,        \* where <Tileset as Load>::load stands
    built,      \* what its caller got: None, Some("Err") or Some(Tileset)
    uvRect,     \* the last call of uv / uv_with_border and what it returned
    pending,    \* the entries of config.tiles TilesetDef::load has not visited
    loading,    \* the local HashMap tiles of TilesetDef::load
    cursor_pos, \* Controller.cursor_pos : Option<vec2>
    drag,       \* Controller.drag : Option<Drag>
    events,     \* the Vec<Event> the last call returned
    ipc         \* "ready", or "panicked" once an unwrap() failed

meshVars == <<tiles, cells, listed, idx, mesh, status>>
loadVars == <<image, grid, pc, cell, probe, connections, result, returned>>
atlasVars ==
    <<config, original, expanded, todo, cur, ruleIdx, dir, apc, built, uvRect,
      pending, loading>>
inputVars == <<cursor_pos, drag, events, ipc>>
vars == <<meshVars, loadVars, atlasVars, inputVars>>

-----------------------------------------------------------------------------
(* Option<T> *)
None == <<>>
Some(x) == <<x>>

(* vec2 *)
Add(p, d) == <<p[1] + d[1], p[2] + d[2]>>

-----------------------------------------------------------------------------
(* Bounds of the model *)
MaxListed == 2      \* longest non_empty_tiles() sequence
MaxRules == 2       \* most rules in one Tile

\* the coordinates at which the modelled maps may hold an entity
Pos == {<<0, 0>>, <<1, 0>>}

\* the tile names entities carry
Names == {"block", "wall"}

-----------------------------------------------------------------------------
(* enum Connection, enum ConnectionFilter *)
Connection == {"Empty", "Same", "Different"}
ConnectionFilter == {"Anything", "Empty", "NotEmpty", "Same", "Different"}

\* the keys a Rule's connection map can hold: load_rules_from_image inserts
\* vec2(dx, -dy) for dx, dy in -1..=1
Offsets == (-1 .. 1) \X (-1 .. 1)

\* matches with Different read as "the neighbour holds another name"
MatchesDifferentOnly(filter, connection) ==
    CASE filter = "NotEmpty" -> connection # "Empty"
      [] filter = "Empty" -> connection = "Empty"
      [] filter = "Anything" -> TRUE
      [] filter = "Same" -> connection = "Same"
      [] filter = "Different" -> connection = "Different"

\* ConnectionFilter::matches
Matches(filter, connection) ==
    CASE filter = "NotEmpty" -> connection # "Empty"
      [] filter = "Empty" -> connection = "Empty"
      [] filter = "Anything" -> TRUE
      [] filter = "Same" -> connection = "Same"
      [] filter = "Different" -> connection # "Same"

\* a rule whose undeclared offsets must be empty
RuleMatchesAllOffsets(rule, f) ==
    \A delta \in Offsets :
        IF delta \in DOMAIN rule.connections
        THEN Matches(rule.connections[delta], f[delta])
        ELSE Matches("Empty", f[delta])

\* the filter closure of Tile::tileset_pos: all (delta, filter) pairs of the
\* rule's connection map match what f reports for delta
RuleMatches(rule, f) ==
    \A delta \in DOMAIN rule.connections :
        Matches(rule.connections[delta], f[delta])

\* the rules the filter of Tile::tileset_pos lets through
MatchedRules(tile, f) ==
    {i \in 1 .. Len(tile.rules) : RuleMatches(tile.rules[i], f)}

\* tileset_pos without the filter: the first rule, matching or not
TilesetPosFirstRule(tile, f) ==
    IF tile.rules # <<>>
    THEN {Some(tile.rules[1].tileset_pos)}
    ELSE {tile.default}

\* tileset_pos with the default taking precedence over the matched rules
TilesetPosDefaultFirst(tile, f) ==
    IF tile.default # None
    THEN {tile.default}
    ELSE IF MatchedRules(tile, f) # {}
    THEN {Some(tile.rules[i].tileset_pos) : i \in MatchedRules(tile, f)}
    ELSE {None}

\* tileset_pos without .or(self.default)
TilesetPosNoDefault(tile, f) ==
    IF MatchedRules(tile, f) # {}
    THEN {Some(tile.rules[i].tileset_pos) : i \in MatchedRules(tile, f)}
    ELSE {None}

\* a random choice that may also come back empty-handed
TilesetPosMayMiss(tile, f) ==
    IF MatchedRules(tile, f) # {}
    THEN {Some(tile.rules[i].tileset_pos) : i \in MatchedRules(tile, f)}
            \cup {tile.default}
    ELSE {tile.default}

\* Tile::tileset_pos: the values choose(&mut thread_rng()) can return, or the
\* default when nothing matched
TilesetPos(tile, f) ==
    IF MatchedRules(tile, f) # {}
    THEN {Some(tile.rules[i].tileset_pos) : i \in MatchedRules(tile, f)}
    ELSE {tile.default}

-----------------------------------------------------------------------------
(* TileMap *)

\* TileMap::get_at
GetAt(pos) == IF pos \in DOMAIN cells THEN cells[pos] ELSE None

\* the closure probing pos - delta
NeighbourMirrored(pos, value) ==
    [delta \in Offsets |->
        LET other == GetAt(<<pos[1] - delta[1], pos[2] - delta[2]>>) IN
        IF other # None
        THEN IF other[1] = value THEN "Same" ELSE "Different"
        ELSE "Empty"]

\* the closure that does not look at the cell itself
NeighbourSkipsSelf(pos, value) ==
    [delta \in Offsets |->
        LET other == GetAt(Add(pos, delta)) IN
        IF delta = <<0, 0>>
        THEN "Empty"
        ELSE IF other # None
        THEN IF other[1] = value THEN "Same" ELSE "Different"
        ELSE "Empty"]

\* the closure generate_mesh hands to tileset_pos
Neighbour(pos, value) ==
    [delta \in Offsets |->
        LET other == GetAt(Add(pos, delta)) IN
        IF other # None
        THEN IF other[1] = value THEN "Same" ELSE "Different"
        ELSE "Empty"]

-----------------------------------------------------------------------------
(* The inputs generate_mesh is run on *)

Rule(conns, at) == [connections |-> conns, tileset_pos |-> at]

\* connection maps of the rules tiles are built from
ConnectionChoices ==
    { (<<1, 0>> :> "Same") @@ (<<-1, 0>> :> "Empty"),
      (<<-1, 0>> :> "NotEmpty") @@ (<<0, 0>> :> "Anything"),
      (<<-1, 0>> :> "Different") @@ (<<0, 1>> :> "Empty"),
      (<<-1, 0>> :> "Same") }

\* rule i of a tile was decoded from cell (i - 1, 0) of the tile's rule image
RuleLists ==
    UNION { { [i \in 1 .. n |-> Rule(c[i], <<i - 1, 0>>)] :
                c \in [1 .. n -> ConnectionChoices] } : n \in 0 .. MaxRules }

DefaultChoices == {None, Some(<<0, 1>>)}

TileChoices ==
    { [rules |-> r, default |-> d] : r \in RuleLists, d \in DefaultChoices }

\* TileConfig::At(1, 1)
LiteralTile == [rules |-> <<>>, default |-> Some(<<1, 1>>)]

\* a tile whose rule image has cells painted at the centre sample only
CentreTile ==
    [rules |-> << Rule(<<0, 0>> :> "Empty", <<1, 1>>),
                  Rule(<<0, 0>> :> "Different", <<1, 1>>),
                  Rule(<<0, 0>> :> "Same", <<2, 1>>),
                  Rule(<<0, 0>> :> "NotEmpty", <<2, 1>>) >>,
     default |-> None]

TilesetChoices ==
    { ("block" :> t) : t \in TileChoices }
        \cup { ("block" :> t) @@ ("wall" :> LiteralTile) : t \in TileChoices }
        \cup { ("block" :> t) @@ ("wall" :> CentreTile) :
                t \in {u \in TileChoices : u.rules = <<>>} }

ListedChoices == UNION { [1 .. n -> Pos] : n \in 0 .. MaxListed }

CellChoices == [Pos -> {None} \cup {Some(n) : n \in Names}]

-----------------------------------------------------------------------------
Init ==
    /\ tiles \in TilesetChoices
    /\ cells \in CellChoices
    /\ listed \in ListedChoices
    /\ idx = 1
    /\ mesh = <<>>
    /\ status = "running"
    /\ image = <<>>
    /\ grid = <<0, 0>>
    /\ pc = "idle"
    /\ cell = <<0, 0>>
    /\ probe = 0
    /\ connections = <<>>
    /\ result = <<>>
    /\ returned = None
    /\ config = <<>>
    /\ original = <<>>
    /\ expanded = <<>>
    /\ todo = {}
    /\ cur = <<>>
    /\ ruleIdx = 0
    /\ dir = 0
    /\ apc = "idle"
    /\ built = <<>>
    /\ uvRect = <<>>
    /\ pending = {}
    /\ loading = <<>>
    /\ cursor_pos = <<>>
    /\ drag = <<>>
    /\ events = <<>>
    /\ ipc = "idle"

TexturedTile(pos, tileset_pos) == [pos |-> pos, tileset_pos |-> tileset_pos]

\* a first stage that yields a placeholder tile where get_at is None
SkipUnoccupiedYieldsPlaceholder ==
    /\ status = "running"
    /\ idx <= Len(listed)
    /\ GetAt(listed[idx]) = None
    /\ mesh' = Append(mesh, TexturedTile(listed[idx], <<0, 0>>))
    /\ idx' = idx + 1
    /\ UNCHANGED <<tiles, cells, listed, status, loadVars, atlasVars, inputVars>>

\* first flat_map: a listed position whose get_at is None is dropped
SkipUnoccupied ==
    /\ status = "running"
    /\ idx <= Len(listed)
    /\ GetAt(listed[idx]) = None
    /\ idx' = idx + 1
    /\ UNCHANGED <<tiles, cells, listed, mesh, status, loadVars, atlasVars, inputVars>>

\* a missing tile definition passed over instead of expect()
AbortAsSkip ==
    /\ status = "running"
    /\ idx <= Len(listed)
    /\ GetAt(listed[idx]) # None
    /\ GetAt(listed[idx])[1] \notin DOMAIN tiles
    /\ idx' = idx + 1
    /\ UNCHANGED <<tiles, cells, listed, mesh, status, loadVars, atlasVars, inputVars>>

\* self.tiles.get(value).expect(..) panics
Abort ==
    /\ status = "running"
    /\ idx <= Len(listed)
    /\ GetAt(listed[idx]) # None
    /\ GetAt(listed[idx])[1] \notin DOMAIN tiles
    /\ status' = "aborted"
    /\ UNCHANGED <<tiles, cells, listed, idx, mesh, loadVars, atlasVars, inputVars>>

\* a position that was yielded before is not yielded again
EmitOnce ==
    /\ status = "running"
    /\ idx <= Len(listed)
    /\ GetAt(listed[idx]) # None
    /\ LET pos == listed[idx]
           value == GetAt(pos)[1]
       IN /\ value \in DOMAIN tiles
          /\ \E uv \in TilesetPos(tiles[value], Neighbour(pos, value)) :
                /\ uv # None
                /\ mesh' = IF \E k \in 1 .. Len(mesh) : mesh[k].pos = pos
                           THEN mesh
                           ELSE Append(mesh, TexturedTile(pos, uv[1]))
    /\ idx' = idx + 1
    /\ UNCHANGED <<tiles, cells, listed, status, loadVars, atlasVars, inputVars>>

\* tileset_pos returned Some(uv): a TexturedTile is yielded
Emit ==
    /\ status = "running"
    /\ idx <= Len(listed)
    /\ GetAt(listed[idx]) # None
    /\ LET pos == listed[idx]
           value == GetAt(pos)[1]
       IN /\ value \in DOMAIN tiles
          /\ \E uv \in TilesetPos(tiles[value], Neighbour(pos, value)) :
                /\ uv # None
                /\ mesh' = Append(mesh, TexturedTile(pos, uv[1]))
    /\ idx' = idx + 1
    /\ UNCHANGED <<tiles, cells, listed, status, loadVars, atlasVars, inputVars>>

\* tileset_pos returned None: the second flat_map yields nothing
Omit ==
    /\ status = "running"
    /\ idx <= Len(listed)
    /\ GetAt(listed[idx]) # None
    /\ LET pos == listed[idx]
           value == GetAt(pos)[1]
       IN /\ value \in DOMAIN tiles
          /\ None \in TilesetPos(tiles[value], Neighbour(pos, value))
    /\ idx' = idx + 1
    /\ UNCHANGED <<tiles, cells, listed, mesh, status, loadVars, atlasVars, inputVars>>

\* non_empty_tiles() is exhausted
Finish ==
    /\ status = "running"
    /\ idx > Len(listed)
    /\ status' = "done"
    /\ UNCHANGED <<tiles, cells, listed, idx, mesh, loadVars, atlasVars, inputVars>>

Next == SkipUnoccupied \/ Abort \/ Emit \/ Omit \/ Finish

Spec == Init /\ [][Next]_vars

-----------------------------------------------------------------------------
(* load_rules_from_image *)

MaxPainted == 2     \* most pixels of a rule image that are not transparent

\* config.tile_size
TileSize == <<3, 3>>

\* the cell grids of the modelled rule images
GridChoices == {<<2, 1>>, <<1, 2>>}

Rgba(rgb, a) == [rgb |-> rgb, a |-> a]

\* color_rules(): the two entries test_color_rules_parse pins down,
\* Rgba::WHITE -> Some(Empty) and Rgba::BLACK -> None
ColorRules ==
    (Rgba("white", 255) :> Some("Empty")) @@ (Rgba("black", 255) :> None)

\* a fully transparent pixel, of a colour the table does not hold
Transparent == Rgba("other", 0)

\* what a painted pixel can be: the two colours of the table and one the
\* table has no entry for
Paints == {Rgba("white", 255), Rgba("black", 255), Rgba("other", 255)}

Pixels(g) ==
    (0 .. g[1] * TileSize[1] - 1) \X (0 .. g[2] * TileSize[2] - 1)

\* the sets of pixels of an image of grid g that may be painted, all others
\* being transparent
PaintedChoices(g) ==
    {S \in SUBSET Pixels(g) : Cardinality(S) <= MaxPainted}

\* the image of grid g whose pixels in DOMAIN paint are painted as paint says
Painted(g, paint) ==
    [p \in Pixels(g) |->
        IF p \in DOMAIN paint THEN paint[p] ELSE Transparent]

\* the (dx, dy) of the k-th pass of "for dx in -1..=1 { for dy in -1..=1"
Delta(k) == <<(k \div 3) - 1, (k % 3) - 1>>

\* the sample of +1 taken at the midpoint instead of the last pixel
SamplePosHalf(delta) ==
    <<CASE delta[1] = -1 -> 0
        [] delta[1] = 0 -> TileSize[1] \div 2
        [] delta[1] = 1 -> TileSize[1] \div 2,
      CASE delta[2] = -1 -> 0
        [] delta[2] = 0 -> TileSize[2] \div 2
        [] delta[2] = 1 -> TileSize[2] \div 2>>

\* delta.zip(config.tile_size).map(..): the pixel of the cell sampled for delta
SamplePos(delta) ==
    <<CASE delta[1] = -1 -> 0
        [] delta[1] = 0 -> TileSize[1] \div 2
        [] delta[1] = 1 -> TileSize[1] - 1,
      CASE delta[2] = -1 -> 0
        [] delta[2] = 0 -> TileSize[2] \div 2
        [] delta[2] = 1 -> TileSize[2] - 1>>

\* tile.get_pixel(pos.x, pos.y) of the view at (x, y) = cell * tile_size
GetPixel(c, pos) ==
    image[<<c[1] * TileSize[1] + pos[1], c[2] * TileSize[2] + pos[2]>>]

\* the pixel the current pass of the inner loops reads
Sampled == GetPixel(cell, SamplePos(Delta(probe)))

\* the image of grid g whose cell c is white at its eight non-centre sample
\* points and holds centre at its midpoint, all other cells transparent
Ring(g, c, centre) ==
    [p \in Pixels(g) |->
        IF p[1] \div TileSize[1] = c[1] /\ p[2] \div TileSize[2] = c[2]
        THEN IF p = <<c[1] * TileSize[1] + TileSize[1] \div 2,
                      c[2] * TileSize[2] + TileSize[2] \div 2>>
             THEN centre
             ELSE Rgba("white", 255)
        ELSE Transparent]

InitLoad ==
    /\ grid \in GridChoices
    /\ \/ \E painted \in PaintedChoices(grid) :
            \E paint \in [painted -> Paints] : image = Painted(grid, paint)
       \/ \E c \in (0 .. grid[1] - 1) \X (0 .. grid[2] - 1) :
            \E centre \in {Transparent} \cup Paints :
                image = Ring(grid, c, centre)
    /\ pc = "start"
    /\ cell = <<0, 0>>
    /\ probe = 0
    /\ connections = <<>>
    /\ result = <<>>
    /\ returned = None
    /\ tiles = <<>>
    /\ cells = <<>>
    /\ listed = <<>>
    /\ idx = 1
    /\ mesh = <<>>
    /\ status = "idle"
    /\ config = <<>>
    /\ original = <<>>
    /\ expanded = <<>>
    /\ todo = {}
    /\ cur = <<>>
    /\ ruleIdx = 0
    /\ dir = 0
    /\ apc = "idle"
    /\ built = <<>>
    /\ uvRect = <<>>
    /\ pending = {}
    /\ loading = <<>>
    /\ cursor_pos = <<>>
    /\ drag = <<>>
    /\ events = <<>>
    /\ ipc = "idle"

\* file::load_bytes(path).await? or image::load_from_memory(&bytes)? fails:
\* the error is returned
ReadFails ==
    /\ pc = "start"
    /\ pc' = "failed"
    /\ returned' = Some("Err")
    /\ UNCHANGED <<image, grid, cell, probe, connections, result, meshVars, atlasVars, inputVars>>

\* the image is read and decoded; the loops start
ReadDecoded ==
    /\ pc = "start"
    /\ pc' = "sample"
    /\ UNCHANGED <<image, grid, cell, probe, connections, result, returned,
                   meshVars, atlasVars, inputVars>>

\* the table lookup made before the alpha check
SampleTransparentLooksUp ==
    /\ pc = "sample"
    /\ probe < 9
    /\ Sampled.a = 0
    /\ IF Sampled \in DOMAIN ColorRules
       THEN probe' = probe + 1 /\ pc' = pc
       ELSE pc' = "panicked" /\ probe' = probe
    /\ UNCHANGED <<image, grid, cell, connections, result, returned,
                   meshVars, atlasVars, inputVars>>

\* if a == 0 { continue; }
SampleTransparent ==
    /\ pc = "sample"
    /\ probe < 9
    /\ Sampled.a = 0
    /\ probe' = probe + 1
    /\ UNCHANGED <<image, grid, pc, cell, connections, result, returned,
                   meshVars, atlasVars, inputVars>>

\* ConnectionFilter::from_color: color_rules().get(&color).expect(..) panics
SampleUnknownColor ==
    /\ pc = "sample"
    /\ probe < 9
    /\ Sampled.a # 0
    /\ Sampled \notin DOMAIN ColorRules
    /\ pc' = "panicked"
    /\ UNCHANGED <<image, grid, cell, probe, connections, result, returned,
                   meshVars, atlasVars, inputVars>>

\* from_color returned None: nothing is inserted
SampleReserved ==
    /\ pc = "sample"
    /\ probe < 9
    /\ Sampled.a # 0
    /\ Sampled \in DOMAIN ColorRules
    /\ ColorRules[Sampled] = None
    /\ probe' = probe + 1
    /\ UNCHANGED <<image, grid, pc, cell, connections, result, returned,
                   meshVars, atlasVars, inputVars>>

\* a constraint that is recorded or dropped at random
SampleConstraintAtRandom ==
    /\ pc = "sample"
    /\ probe < 9
    /\ Sampled.a # 0
    /\ Sampled \in DOMAIN ColorRules
    /\ ColorRules[Sampled] # None
    /\ \/ connections' =
            (<<Delta(probe)[1], -Delta(probe)[2]>> :> ColorRules[Sampled][1])
                @@ connections
       \/ connections' = connections
    /\ probe' = probe + 1
    /\ UNCHANGED <<image, grid, pc, cell, result, returned, meshVars, atlasVars, inputVars>>

\* the constraint stored under vec2(delta.x, delta.y)
SampleConstraintUnreversed ==
    /\ pc = "sample"
    /\ probe < 9
    /\ Sampled.a # 0
    /\ Sampled \in DOMAIN ColorRules
    /\ ColorRules[Sampled] # None
    /\ connections' =
        (<<Delta(probe)[1], Delta(probe)[2]>> :> ColorRules[Sampled][1])
            @@ connections
    /\ probe' = probe + 1
    /\ UNCHANGED <<image, grid, pc, cell, result, returned, meshVars,
                   atlasVars, inputVars>>

\* the centre sample looked at but never stored
SampleConstraintNotCentre ==
    /\ pc = "sample"
    /\ probe < 9
    /\ Sampled.a # 0
    /\ Sampled \in DOMAIN ColorRules
    /\ ColorRules[Sampled] # None
    /\ connections' =
        IF Delta(probe) = <<0, 0>>
        THEN connections
        ELSE (<<Delta(probe)[1], -Delta(probe)[2]>> :> ColorRules[Sampled][1])
                @@ connections
    /\ probe' = probe + 1
    /\ UNCHANGED <<image, grid, pc, cell, result, returned, meshVars,
                   atlasVars, inputVars>>

\* connections.insert(vec2(delta.x, -delta.y), connection)
SampleConstraint ==
    /\ pc = "sample"
    /\ probe < 9
    /\ Sampled.a # 0
    /\ Sampled \in DOMAIN ColorRules
    /\ ColorRules[Sampled] # None
    /\ connections' =
        (<<Delta(probe)[1], -Delta(probe)[2]>> :> ColorRules[Sampled][1])
            @@ connections
    /\ probe' = probe + 1
    /\ UNCHANGED <<image, grid, pc, cell, result, returned, meshVars, atlasVars, inputVars>>

\* a Rule pushed for every cell, constrained or not
EndCellAlwaysPushes ==
    /\ pc = "sample"
    /\ probe = 9
    /\ result' = Append(result, Rule(connections, cell))
    /\ connections' = <<>>
    /\ probe' = 0
    /\ IF cell[2] + 1 < grid[2]
       THEN cell' = <<cell[1], cell[2] + 1>> /\ pc' = pc
       ELSE IF cell[1] + 1 < grid[1]
       THEN cell' = <<cell[1] + 1, 0>> /\ pc' = pc
       ELSE cell' = cell /\ pc' = "return"
    /\ UNCHANGED <<image, grid, returned, meshVars, atlasVars, inputVars>>

\* the Rule tagged with vec2(y_index, x_index)
EndCellTransposed ==
    /\ pc = "sample"
    /\ probe = 9
    /\ result' = IF connections # <<>>
                 THEN Append(result, Rule(connections, <<cell[2], cell[1]>>))
                 ELSE result
    /\ connections' = <<>>
    /\ probe' = 0
    /\ IF cell[2] + 1 < grid[2]
       THEN cell' = <<cell[1], cell[2] + 1>> /\ pc' = pc
       ELSE IF cell[1] + 1 < grid[1]
       THEN cell' = <<cell[1] + 1, 0>> /\ pc' = pc
       ELSE cell' = cell /\ pc' = "return"
    /\ UNCHANGED <<image, grid, returned, meshVars, atlasVars, inputVars>>

\* the nine samples of the cell are taken: push the Rule if it has
\* connections, and go to the next y, then the next x
EndCell ==
    /\ pc = "sample"
    /\ probe = 9
    /\ result' = IF connections # <<>>
                 THEN Append(result, Rule(connections, cell))
                 ELSE result
    /\ connections' = <<>>
    /\ probe' = 0
    /\ IF cell[2] + 1 < grid[2]
       THEN cell' = <<cell[1], cell[2] + 1>> /\ pc' = pc
       ELSE IF cell[1] + 1 < grid[1]
       THEN cell' = <<cell[1] + 1, 0>> /\ pc' = pc
       ELSE cell' = cell /\ pc' = "return"
    /\ UNCHANGED <<image, grid, returned, meshVars, atlasVars, inputVars>>

\* Ok(result)
ReturnOk ==
    /\ pc = "return"
    /\ pc' = "done"
    /\ returned' = Some(result)
    /\ UNCHANGED <<image, grid, cell, probe, connections, result, meshVars, atlasVars, inputVars>>

NextLoad ==
    \/ ReadFails
    \/ ReadDecoded
    \/ SampleTransparent
    \/ SampleUnknownColor
    \/ SampleReserved
    \/ SampleConstraint
    \/ EndCell
    \/ ReturnOk

SpecLoad == InitLoad /\ [][NextLoad]_vars

-----------------------------------------------------------------------------
(* The properties below are stated with their own reading of the rules:    *)
(* the table of section 4.2 and the neighbour classification of 4.3.       *)

\* which connections each filter accepts (section 4.2)
FilterTable ==
    [filter \in ConnectionFilter |->
        CASE filter = "Anything" -> {"Empty", "Same", "Different"}
          [] filter = "Empty" -> {"Empty"}
          [] filter = "NotEmpty" -> {"Same", "Different"}
          [] filter = "Same" -> {"Same"}
          [] filter = "Different" -> {"Empty", "Different"}]

\* what the map holds at pos + d, seen from a cell named value (section 4.3)
Seen(pos, value, d) ==
    LET q == <<pos[1] + d[1], pos[2] + d[2]>> IN
    IF q \notin Pos \/ cells[q] = <<>> THEN "Empty"
    ELSE IF cells[q] = <<value>> THEN "Same" ELSE "Different"

\* the rules of tile whose every declared pair accepts what is seen from pos
Satisfied(tile, pos, value) ==
    {i \in 1 .. Len(tile.rules) :
        \A d \in DOMAIN tile.rules[i].connections :
            Seen(pos, value, d) \in FilterTable[tile.rules[i].connections[d]]}

Occupied(pos) == pos \in Pos /\ cells[pos] # <<>>
NameAt(pos) == cells[pos][1]
Known(pos) == Occupied(pos) /\ NameAt(pos) \in DOMAIN tiles
Processed == 1 .. (idx - 1)
Current == idx <= Len(listed) /\ status = "running"
MeshPositions == {mesh[k].pos : k \in 1 .. Len(mesh)}

\* C1: every position generate_mesh yields is one non_empty_tiles() produced
\* and one for which get_at returns a tile name; nothing outside the
\* occupied set is yielded.
C1_YieldedAreOccupied ==
    \A k \in 1 .. Len(mesh) :
        /\ \E i \in Processed : listed[i] = mesh[k].pos
        /\ Occupied(mesh[k].pos)

C1_Witness ==
    /\ status = "done"
    /\ Len(mesh) >= 1
    /\ \E i \in 1 .. Len(listed) : ~Occupied(listed[i])

\* C2: when every occupied listed cell has, for the neighbours it sees, a
\* matching rule or a default, a finished generate_mesh has yielded exactly
\* the occupied listed coordinates.
C2_AllResolvedMeansAllYielded ==
    (/\ status = "done"
     /\ \A i \in 1 .. Len(listed) :
            Occupied(listed[i]) =>
                /\ Known(listed[i])
                /\ \/ Satisfied(tiles[NameAt(listed[i])], listed[i],
                                NameAt(listed[i])) # {}
                   \/ tiles[NameAt(listed[i])].default # <<>>)
        => MeshPositions = {listed[i] : i \in {j \in 1 .. Len(listed) :
                                                    Occupied(listed[j])}}

\* two adjacent "block" cells at (0,0) and (1,0), no default, both in the mesh
C2_Witness ==
    /\ status = "done"
    /\ cells = (<<0, 0>> :> <<"block">>) @@ (<<1, 0>> :> <<"block">>)
    /\ tiles["block"].default = <<>>
    /\ MeshPositions = {<<0, 0>>, <<1, 0>>}

\* the connections a finished or running generate_mesh has evaluated: what each
\* processed cell with a tile definition sees at each offset
Evaluated ==
    {Neighbour(listed[i], NameAt(listed[i]))[d] :
        i \in {j \in Processed : Known(listed[j])}, d \in Offsets}

\* C3: ConnectionFilter::matches agrees with the table for all 5 filters and
\* all 3 connections, among them every connection generate_mesh evaluates.
C3_MatchesTable ==
    /\ Evaluated \subseteq Connection
    /\ \A filter \in ConnectionFilter : \A c \in Connection :
            Matches(filter, c) <=> (c \in FilterTable[filter])

\* a tile was yielded through a rule that holds a Different filter on an
\* empty neighbour
C3_Witness ==
    \E k \in 1 .. Len(mesh) :
        LET pos == mesh[k].pos
            tile == tiles[NameAt(pos)]
        IN /\ tile.default = <<>>
           /\ \E i \in 1 .. Len(tile.rules) :
                /\ tile.rules[i].tileset_pos = mesh[k].tileset_pos
                /\ \E d \in DOMAIN tile.rules[i].connections :
                    /\ tile.rules[i].connections[d] = "Different"
                    /\ Seen(pos, NameAt(pos), d) = "Empty"

\* C4 as stated: for every Connection (here: every one generate_mesh has
\* evaluated) exactly one of Different and NotEmpty matches.
C4_Complementary ==
    \A c \in Evaluated : Matches("Different", c) # Matches("NotEmpty", c)

\* C4 as amended: at least one of Different and NotEmpty matches every
\* Connection; exactly one matches Empty and Same, both match Different.
C4_OverlapOnDifferent ==
    /\ Evaluated \subseteq Connection
    /\ \A c \in Connection :
        /\ Matches("Different", c) \/ Matches("NotEmpty", c)
        /\ (Matches("Different", c) /\ Matches("NotEmpty", c))
                <=> (c = "Different")

\* a processed cell whose neighbour carries another name
C4_Witness == "Different" \in Evaluated

\* C5: for the cell generate_mesh is about to resolve, a rule of its tile
\* counts as matching iff every (offset, filter) pair of the rule's connection
\* map accepts what the neighbour function reports for the offset; what the
\* function reports for an offset the rule does not declare never changes
\* the verdict.
C5_RuleMatchesIffAllDeclared ==
    (Current /\ Known(listed[idx])) =>
        LET pos == listed[idx]
            f == Neighbour(pos, NameAt(pos))
            rules == tiles[NameAt(pos)].rules
        IN \A i \in 1 .. Len(rules) :
            /\ RuleMatches(rules[i], f)
                <=> \A d \in DOMAIN rules[i].connections :
                        Seen(pos, NameAt(pos), d)
                            \in FilterTable[rules[i].connections[d]]
            /\ \A d \in Offsets \ DOMAIN rules[i].connections :
                \A c \in Connection :
                    RuleMatches(rules[i], [f EXCEPT ![d] = c])
                        <=> RuleMatches(rules[i], f)

\* a tile was yielded through a rule with two declared pairs while an
\* offset the rule does not declare holds a neighbour
C5_Witness ==
    \E k \in 1 .. Len(mesh) :
        LET pos == mesh[k].pos
            tile == tiles[NameAt(pos)]
        IN /\ tile.default = <<>>
           /\ \E i \in Satisfied(tile, pos, NameAt(pos)) :
                /\ tile.rules[i].tileset_pos = mesh[k].tileset_pos
                /\ Cardinality(DOMAIN tile.rules[i].connections) = 2
                /\ \E d \in Offsets \ DOMAIN tile.rules[i].connections :
                        d # <<0, 0>> /\ Seen(pos, NameAt(pos), d) # "Empty"

\* C6: when one or more rules of the tile match, the yielded atlas coordinate
\* is that of one of the matching rules (never a non-matching rule's, never
\* the default in place of a match), and every matching rule can be the one.
C6_MatchWins ==
    /\ \A k \in 1 .. Len(mesh) :
        LET pos == mesh[k].pos
            tile == tiles[NameAt(pos)]
            matching == Satisfied(tile, pos, NameAt(pos))
        IN matching # {} =>
                mesh[k].tileset_pos \in
                    {tile.rules[i].tileset_pos : i \in matching}
    /\ (Current /\ Known(listed[idx])) =>
            LET pos == listed[idx]
                tile == tiles[NameAt(pos)]
            IN \A i \in Satisfied(tile, pos, NameAt(pos)) :
                  ENABLED (Emit /\ mesh' = Append(mesh,
                        TexturedTile(pos, tile.rules[i].tileset_pos)))

\* two rules match, the tile has a default, and the second rule was chosen
C6_Witness ==
    \E k \in 1 .. Len(mesh) :
        LET pos == mesh[k].pos
            tile == tiles[NameAt(pos)]
        IN /\ Satisfied(tile, pos, NameAt(pos)) = {1, 2}
           /\ tile.default # <<>>
           /\ tile.default # <<mesh[k].tileset_pos>>
           /\ mesh[k].tileset_pos = tile.rules[2].tileset_pos

\* C7: when no rule of the tile matches, the cell gets the tile's default
\* atlas coordinate if there is one; if there is none, the step yields
\* nothing, does not fail, and the iteration goes on to the next listed cell.
C7_NoMatchFallsBack ==
    [][(Current /\ Known(listed[idx])
            /\ Satisfied(tiles[NameAt(listed[idx])], listed[idx],
                         NameAt(listed[idx])) = {})
        => /\ status' = "running"
           /\ idx' = idx + 1
           /\ mesh' = IF tiles[NameAt(listed[idx])].default = <<>>
                      THEN mesh
                      ELSE Append(mesh,
                            [pos |-> listed[idx],
                             tileset_pos |->
                                tiles[NameAt(listed[idx])].default[1]])]_vars

\* a cell with rules, none matching, and no default was passed over, and the
\* cell listed after it was yielded
C7_Witness ==
    /\ status = "done"
    /\ Len(listed) = 2
    /\ Known(listed[1])
    /\ tiles[NameAt(listed[1])].rules # <<>>
    /\ tiles[NameAt(listed[1])].default = <<>>
    /\ Satisfied(tiles[NameAt(listed[1])], listed[1], NameAt(listed[1])) = {}
    /\ Len(mesh) = 1
    /\ mesh[1].pos = listed[2]

\* C8: processing an occupied coordinate whose tile name has no entry in
\* tiles aborts, whatever the neighbours are, and the abort is final; an
\* abort has no other cause: a cell whose own name has an entry is processed
\* without failure even when a neighbour's name has none, that neighbour
\* being classified Same or Different.
C8_AbortOnlyOnMissingDef ==
    /\ [][(Current /\ Occupied(listed[idx]))
            => IF NameAt(listed[idx]) \in DOMAIN tiles
               THEN status' = "running" /\ idx' = idx + 1
               ELSE status' = "aborted" /\ mesh' = mesh]_vars
    /\ [][status = "aborted" => status' = "aborted"]_vars
    /\ [](status = "aborted" =>
            /\ idx <= Len(listed)
            /\ Occupied(listed[idx])
            /\ NameAt(listed[idx]) \notin DOMAIN tiles)
    /\ [](\A i \in Processed : \A d \in Offsets :
            (Known(listed[i]) /\ Occupied(Add(listed[i], d))
                /\ NameAt(Add(listed[i], d)) \notin DOMAIN tiles)
            => Neighbour(listed[i], NameAt(listed[i]))[d]
                    \in {"Same", "Different"})

\* a cell was yielded next to a neighbour whose name has no entry, and the
\* run aborted when that neighbour itself was processed
C8_Witness ==
    /\ status = "aborted"
    /\ idx = 2
    /\ Len(mesh) = 1
    /\ mesh[1].pos = listed[1]
    /\ \E d \in Offsets : listed[2] = Add(listed[1], d)

\* C9: the connection generate_mesh passes to rule matching for offset d of
\* the occupied cell at pos named v it is about to resolve is Empty when the
\* map holds nothing at pos + d, Same when it holds the name v there,
\* Different when it holds another name; the same map is probed, at exactly
\* pos + d.
C9_ConnectionOfNeighbour ==
    (Current /\ Occupied(listed[idx])) =>
        LET pos == listed[idx]
            f == Neighbour(pos, NameAt(pos))
        IN \A d \in Offsets :
            f[d] = (LET q == <<pos[1] + d[1], pos[2] + d[2]>> IN
                    IF q \notin Pos \/ cells[q] = <<>> THEN "Empty"
                    ELSE IF cells[q][1] = cells[pos][1] THEN "Same"
                    ELSE "Different")

\* a cell was yielded through a rule that demands Different of the left
\* neighbour, which carries another name
C9_Witness ==
    \E k \in 1 .. Len(mesh) :
        LET pos == mesh[k].pos
            tile == tiles[NameAt(pos)]
        IN /\ tile.default = <<>>
           /\ Len(tile.rules) = 1
           /\ tile.rules[1].connections =
                (<<-1, 0>> :> "Different") @@ (<<0, 1>> :> "Empty")
           /\ Occupied(<<pos[1] - 1, pos[2]>>)
           /\ pos = <<1, 0>>

\* the pass of the inner loops that is next samples a pixel with non-zero
\* alpha whose colour the table has no entry for
AtUnknownColour ==
    /\ probe < 9
    /\ Sampled.a # 0
    /\ Sampled \notin {Rgba("white", 255), Rgba("black", 255)}

\* C10 as stated: a sampled pixel with non-zero alpha and no table entry makes
\* rule loading fail with an error returned to the caller, and no rule set is
\* produced; a pixel with alpha zero never causes a failure.
C10_UnknownColourReturnsError ==
    /\ [][(pc = "sample" /\ AtUnknownColour)
            => returned' = <<"Err">>]_vars
    /\ [][(pc = "sample" /\ probe < 9 /\ Sampled.a = 0)
            => pc' = "sample" /\ probe' = probe + 1]_vars

\* C10 as amended: a sampled pixel with non-zero alpha and no table entry
\* makes rule loading panic (the expect of from_color): nothing is returned to
\* the caller, neither an error nor a rule set, and the panic has no other
\* cause; a pixel with alpha zero never causes a failure whatever its RGB
\* value: it is skipped and records no constraint.
C10_UnknownColourPanics ==
    /\ [][(pc = "sample" /\ AtUnknownColour)
            => pc' = "panicked" /\ returned' = <<>>]_vars
    /\ [][pc = "panicked" => pc' = "panicked" /\ returned' = <<>>]_vars
    /\ [](pc = "panicked" => returned = <<>> /\ AtUnknownColour)
    /\ [][(pc = "sample" /\ probe < 9 /\ Sampled.a = 0)
            => /\ pc' = "sample"
               /\ probe' = probe + 1
               /\ connections' = connections
               /\ returned' = <<>>]_vars

\* the first cell gave a rule, a transparent pixel of a colour without entry
\* was passed over, and the second cell's painted pixel of that colour
\* stopped the loading with nothing returned
C10_Witness ==
    /\ pc = "panicked"
    /\ returned = <<>>
    /\ result # <<>>
    /\ cell # <<0, 0>>
    /\ \E k \in 0 .. 8 :
            GetPixel(<<0, 0>>, SamplePos(Delta(k))) = Rgba("other", 0)

-----------------------------------------------------------------------------
(* The rule image as section 4.1 reads it *)

\* the pixel of cell c that encodes world offset d: column 0, midpoint or
\* last for d.x = -1, 0, +1, and the same for -d.y (image rows grow downward)
Encoding(c, d) ==
    image[<<c[1] * TileSize[1] +
                (IF d[1] = -1 THEN 0
                 ELSE IF d[1] = 0 THEN TileSize[1] \div 2
                 ELSE TileSize[1] - 1),
            c[2] * TileSize[2] +
                (IF d[2] = 1 THEN 0
                 ELSE IF d[2] = 0 THEN TileSize[2] \div 2
                 ELSE TileSize[2] - 1)>>]

White == [rgb |-> "white", a |-> 255]
Black == [rgb |-> "black", a |-> 255]

\* the constraints cell c encodes: Empty wherever the encoding pixel is white
Wanted(c) ==
    [d \in {e \in Offsets : Encoding(c, e) = White} |-> "Empty"]

\* some sample point of cell c holds a colour without table entry
Unreadable(c) ==
    \E d \in Offsets :
        Encoding(c, d).a # 0 /\ Encoding(c, d) \notin {White, Black}

GridCells == (0 .. grid[1] - 1) \X (0 .. grid[2] - 1)

\* C11: a cell that yields no constraint (every sampled pixel transparent or
\* of a reserved colour) contributes no Rule and raises no error; every Rule
\* of the result has a non-empty connection map.
C11_NoEmptyRule ==
    /\ [](\A i \in 1 .. Len(result) : result[i].connections # <<>>)
    /\ [](pc = "done" =>
            \A i \in 1 .. Len(returned[1]) :
                returned[1][i].connections # <<>>)
    /\ [][(pc = "sample" /\ probe = 9
                /\ \A d \in Offsets : Encoding(cell, d).a = 0
                                        \/ Encoding(cell, d) = Black)
            => /\ result' = result
               /\ pc' \in {"sample", "return"}
               /\ returned' = <<>>]_vars

\* one cell held only a reserved colour and gave no rule, the other gave
\* the one rule that was returned
C11_Witness ==
    /\ pc = "done"
    /\ Len(returned[1]) = 1
    /\ \E c \in GridCells :
        /\ \E d \in Offsets : Encoding(c, d) = Black
        /\ \A d \in Offsets : Encoding(c, d) \in {Black, [rgb |-> "other", a |-> 0]}

\* cell c is white at its eight non-centre sample points
WhiteRing(c) == \A d \in Offsets \ {<<0, 0>>} : Encoding(c, d) = White

\* C12 as stated: a cell whose eight non-centre sample points are white
\* decodes to a rule that requires Empty at the eight offsets around the cell
\* and nothing else.
C12_RingIsEightEmpty ==
    pc = "done" =>
        \A c \in GridCells :
            WhiteRing(c) =>
                \E i \in 1 .. Len(returned[1]) :
                    /\ returned[1][i].tileset_pos = c
                    /\ returned[1][i].connections =
                            [d \in Offsets \ {<<0, 0>>} |-> "Empty"]

\* C12 as amended: when the loading returns, such a cell has decoded to a
\* rule that requires Empty at each of the eight offsets around the cell; it
\* requires nothing else when the centre sample is transparent or of a
\* reserved colour, and it also holds the centre's filter at offset (0, 0)
\* when the centre sample has a colour the table maps to a filter.
C12_RingIsEightEmptyAndCentre ==
    pc = "done" =>
        \A c \in GridCells :
            WhiteRing(c) =>
                \E i \in 1 .. Len(returned[1]) :
                    LET got == returned[1][i].connections IN
                    /\ returned[1][i].tileset_pos = c
                    /\ \A d \in Offsets \ {<<0, 0>>} :
                            d \in DOMAIN got /\ got[d] = "Empty"
                    /\ DOMAIN got \subseteq Offsets
                    /\ IF Encoding(c, <<0, 0>>) = White
                       THEN <<0, 0>> \in DOMAIN got /\ got[<<0, 0>>] = "Empty"
                       ELSE <<0, 0>> \notin DOMAIN got

\* a white ring around a transparent centre was decoded and returned
C12_Witness ==
    /\ pc = "done"
    /\ \E c \in GridCells :
        /\ WhiteRing(c)
        /\ Encoding(c, <<0, 0>>).a = 0
        /\ \E i \in 1 .. Len(returned[1]) :
            /\ returned[1][i].tileset_pos = c
            /\ Cardinality(DOMAIN returned[1][i].connections) = 8

\* C13: decoding is deterministic: once the image is decoded every step has
\* one outcome, and the rules returned are a function of the image alone
\* (the rule of each cell that encodes a constraint, tagged with the cell);
\* the loading is stopped by a colour without entry iff the image holds one
\* at a sample point.
C13_DecodingIsDeterministic ==
    /\ pc = "done" =>
        {returned[1][i] : i \in 1 .. Len(returned[1])} =
            {[connections |-> Wanted(c), tileset_pos |-> c] :
                c \in {e \in GridCells : Wanted(e) # <<>>}}
    /\ pc = "done" => \A c \in GridCells : ~Unreadable(c)
    /\ pc = "panicked" => Unreadable(cell)
    /\ (pc = "sample" /\ probe < 9 /\ Encoding(cell,
            <<Delta(probe)[1], -Delta(probe)[2]>>) = White) =>
        ~ENABLED (SampleConstraint /\ connections' = connections)
    /\ pc = "sample" =>
        Cardinality({k \in 1 .. 5 :
            CASE k = 1 -> ENABLED SampleTransparent
              [] k = 2 -> ENABLED SampleUnknownColor
              [] k = 3 -> ENABLED SampleReserved
              [] k = 4 -> ENABLED SampleConstraint
              [] k = 5 -> ENABLED EndCell}) = 1

\* two cells were decoded into two rules
C13_Witness ==
    /\ pc = "done"
    /\ Len(returned[1]) = 2

-----------------------------------------------------------------------------
(* TilesetDef::load and <Tileset as geng::asset::Load>::load, the Atlas      *)
(* Builder                                                                   *)

MaxAtlasRules == 2

\* TileConfig; color_coded_rules stands for what load_rules_from_image
\* returns for the file at that path
AutoTile(rules, default) ==
    [kind |-> "AutoTile", color_coded_rules |-> rules, default |-> default]
At(x, y) == [kind |-> "At", x |-> x, y |-> y]

\* At(x, y) read as (y, x)
TileOfConfigTransposed(tile) ==
    IF tile.kind = "AutoTile"
    THEN [rules |-> tile.color_coded_rules, default |-> tile.default]
    ELSE [rules |-> <<>>, default |-> Some(<<tile.y, tile.x>>)]

\* the match of TilesetDef::load
TileOfConfig(tile) ==
    IF tile.kind = "AutoTile"
    THEN [rules |-> tile.color_coded_rules, default |-> tile.default]
    ELSE [rules |-> <<>>, default |-> Some(<<tile.x, tile.y>>)]

AtlasConnectionChoices ==
    { (<<1, 0>> :> "Same") @@ (<<0, 1>> :> "Same") @@ (<<1, 1>> :> "Same")
        @@ (<<-1, 0>> :> "Empty"),
      (<<-1, -1>> :> "Same") @@ (<<0, -1>> :> "Same") @@ (<<0, 0>> :> "Same"),
      (<<-1, 0>> :> "Different") @@ (<<0, 1>> :> "NotEmpty")
        @@ (<<1, 0>> :> "Anything"),
      (<<-1, 0>> :> "Same") @@ (<<0, 0>> :> "Empty") }

\* the rules of one rule image: rule i sits in cell ((i - 1) % 2, 0)
AtlasRuleLists ==
    UNION { { [i \in 1 .. n |-> Rule(c[i], <<(i - 1) % 2, 0>>)] :
                c \in [1 .. n -> AtlasConnectionChoices] } :
            n \in 0 .. MaxAtlasRules }

BlockConfigs ==
    { AutoTile(rules, default) :
        rules \in AtlasRuleLists,
        default \in {None, Some(<<0, 0>>), Some(<<1, 0>>)} }

WallConfigs ==
    {At(1, 0), At(0, 1)}
        \cup { AutoTile(<<Rule(c, <<0, 0>>)>>, None) :
                c \in {m \in AtlasConnectionChoices :
                            <<0, 0>> \notin DOMAIN m} }

ConfigChoices ==
    { "block" :> b : b \in BlockConfigs }
        \cup { ("block" :> b) @@ ("wall" :> w) :
                b \in BlockConfigs, w \in WallConfigs }

\* width and height of the source atlases tried; tile_size is TileSize
OriginalSizes == {<<6, 3>>, <<3, 6>>, <<4, 3>>, <<3, 5>>}

\* RgbaImage::new: every pixel zero
Blank == <<>>

NewImage(w, h) ==
    [width |-> w, height |-> h,
     pixels |-> [p \in (0 .. w - 1) \X (0 .. h - 1) |-> Blank]]

\* a source atlas whose pixels all differ: the colour of a pixel is its place
SourceImage(w, h) ==
    [width |-> w, height |-> h,
     pixels |-> [p \in (0 .. w - 1) \X (0 .. h - 1) |-> p]]

InitAtlas ==
    /\ config \in ConfigChoices
    /\ \E size \in OriginalSizes : original = SourceImage(size[1], size[2])
    /\ expanded = None
    /\ todo = {}
    /\ cur = None
    /\ ruleIdx = 0
    /\ dir = 0
    /\ apc = "start"
    /\ built = None
    /\ uvRect = None
    /\ pending = {}
    /\ loading = <<>>
    /\ cursor_pos = <<>>
    /\ drag = <<>>
    /\ events = <<>>
    /\ ipc = "idle"
    /\ tiles = <<>>
    /\ cells = <<>>
    /\ listed = <<>>
    /\ idx = 1
    /\ mesh = <<>>
    /\ status = "idle"
    /\ image = <<>>
    /\ grid = <<0, 0>>
    /\ pc = "idle"
    /\ cell = <<0, 0>>
    /\ probe = 0
    /\ connections = <<>>
    /\ result = <<>>
    /\ returned = None

\* file::load_detect(path).await? fails
LoadDefFails ==
    /\ apc = "start"
    /\ apc' = "failed"
    /\ built' = Some("Err")
    /\ UNCHANGED <<pending, loading, uvRect, config, original, expanded, todo,
                   cur, ruleIdx, dir, meshVars, loadVars, inputVars>>

\* the config is read; let mut tiles = HashMap::new()
LoadConfig ==
    /\ apc = "start"
    /\ apc' = "def"
    /\ pending' = DOMAIN config
    /\ loading' = <<>>
    /\ UNCHANGED <<uvRect, config, original, expanded, todo, cur, ruleIdx, dir,
                   built, meshVars, loadVars, inputVars>>

\* a rule image that fails is passed over and the loop goes on
LoadRulesFailsAndSkips ==
    /\ apc = "def"
    /\ \E name \in pending :
        /\ config[name].kind = "AutoTile"
        /\ pending' = pending \ {name}
    /\ UNCHANGED <<loading, uvRect, config, original, expanded, todo, cur,
                   ruleIdx, dir, apc, built, meshVars, loadVars, inputVars>>

\* load_rules_from_image(..).await? is Err for the entry the loop stands at
LoadRulesFails ==
    /\ apc = "def"
    /\ \E name \in pending : config[name].kind = "AutoTile"
    /\ apc' = "failed"
    /\ built' = Some("Err")
    /\ UNCHANGED <<pending, loading, uvRect, config, original, expanded, todo,
                   cur, ruleIdx, dir, meshVars, loadVars, inputVars>>

\* load_rules_from_image panics on a colour without table entry
LoadRulesPanics ==
    /\ apc = "def"
    /\ \E name \in pending : config[name].kind = "AutoTile"
    /\ apc' = "panicked"
    /\ UNCHANGED <<pending, loading, uvRect, config, original, expanded, todo,
                   cur, ruleIdx, dir, built, meshVars, loadVars, inputVars>>

\* tiles.insert(name.clone(), match tile { .. }) for the next entry of
\* config.tiles, in the order the HashMap yields them
InsertTile ==
    /\ apc = "def"
    /\ \E name \in pending :
        /\ loading' = (name :> TileOfConfig(config[name])) @@ loading
        /\ pending' = pending \ {name}
    /\ UNCHANGED <<uvRect, config, original, expanded, todo, cur, ruleIdx, dir,
                   apc, built, meshVars, loadVars, inputVars>>

\* TilesetDef::load returns Ok((config, def))
LoadDef ==
    /\ apc = "def"
    /\ pending = {}
    /\ tiles' = loading
    /\ apc' = "image"
    /\ UNCHANGED <<pending, loading, uvRect, cells, listed, idx, mesh, status,
                   loadVars, config, original, expanded, todo, cur, ruleIdx,
                   dir, built, inputVars>>

\* file::load_bytes(..).await? or image::load_from_memory(..)? fails
LoadImageFails ==
    /\ apc = "image"
    /\ apc' = "failed"
    /\ built' = Some("Err")
    /\ UNCHANGED <<pending, loading, uvRect, config, original, expanded, todo, cur, ruleIdx, dir,
                   meshVars, loadVars, inputVars>>

LoadImage ==
    /\ apc = "image"
    /\ apc' = "assert"
    /\ UNCHANGED <<pending, loading, uvRect, config, original, expanded, todo, cur, ruleIdx, dir, built,
                   meshVars, loadVars, inputVars>>

\* one of the two assert!s fails
AssertFails ==
    /\ apc = "assert"
    /\ \/ original.width % TileSize[1] # 0
       \/ original.height % TileSize[2] # 0
    /\ apc' = "panicked"
    /\ UNCHANGED <<pending, loading, uvRect, config, original, expanded, todo, cur, ruleIdx, dir, built,
                   meshVars, loadVars, inputVars>>

\* width / tile_size.x * tile_size.x + 2: the padding added once
ExpandedSizePaddedOnce(w, h) ==
    <<(w \div TileSize[1]) * TileSize[1] + 2,
      (h \div TileSize[2]) * TileSize[2] + 2>>

\* the two arguments of RgbaImage::new
ExpandedSize(w, h) ==
    <<(w \div TileSize[1]) * (TileSize[1] + 2),
      (h \div TileSize[2]) * (TileSize[2] + 2)>>

\* the image allocated whatever the size of the source
AllocateUnchecked ==
    /\ apc = "assert"
    /\ expanded' = Some(NewImage(ExpandedSize(original.width, original.height)[1],
                                 ExpandedSize(original.width, original.height)[2]))
    /\ todo' = DOMAIN tiles
    /\ apc' = "tiles"
    /\ UNCHANGED <<pending, loading, uvRect, config, original, cur, ruleIdx, dir, built,
                   meshVars, loadVars, inputVars>>

\* both assert!s pass; expanded_image is allocated and the loop over
\* def.tiles.values() is entered
Allocate ==
    /\ apc = "assert"
    /\ original.width % TileSize[1] = 0
    /\ original.height % TileSize[2] = 0
    /\ expanded' = Some(NewImage(ExpandedSize(original.width, original.height)[1],
                                 ExpandedSize(original.width, original.height)[2]))
    /\ todo' = DOMAIN tiles
    /\ apc' = "tiles"
    /\ UNCHANGED <<pending, loading, uvRect, config, original, cur, ruleIdx, dir, built,
                   meshVars, loadVars, inputVars>>

\* the closures from, size and to of copy, for one axis
From(tileset_pos, tile_size, area) ==
    tileset_pos * tile_size + (IF area = "Right" THEN tile_size - 1 ELSE 0)

Size(tile_size, area) == IF area = "Middle" THEN tile_size ELSE 1

\* to with Right one pixel further
ToPastCell(tileset_pos, tile_size, area) ==
    tileset_pos * (tile_size + 2)
        + (CASE area = "Left" -> 0
             [] area = "Middle" -> 1
             [] area = "Right" -> tile_size + 2)

To(tileset_pos, tile_size, area) ==
    tileset_pos * (tile_size + 2)
        + (CASE area = "Left" -> 0
             [] area = "Middle" -> 1
             [] area = "Right" -> tile_size + 1)

\* the map of vec2(dx, -dy) to Copy
Area(x) ==
    CASE x = -1 -> "Left"
      [] x = 0 -> "Middle"
      [] x = 1 -> "Right"

\* original_image.view(..) and copy_from(..) stay inside the two images
Fits(tileset_pos, area) ==
    /\ From(tileset_pos[1], TileSize[1], area[1]) + Size(TileSize[1], area[1])
            <= original.width
    /\ From(tileset_pos[2], TileSize[2], area[2]) + Size(TileSize[2], area[2])
            <= original.height
    /\ To(tileset_pos[1], TileSize[1], area[1]) + Size(TileSize[1], area[1])
            <= expanded[1].width
    /\ To(tileset_pos[2], TileSize[2], area[2]) + Size(TileSize[2], area[2])
            <= expanded[1].height

\* a copy that first clears the padded cell it writes into
CopiedAfterClearing(img, tileset_pos, area) ==
    LET to == <<To(tileset_pos[1], TileSize[1], area[1]),
                To(tileset_pos[2], TileSize[2], area[2])>>
        from == <<From(tileset_pos[1], TileSize[1], area[1]),
                  From(tileset_pos[2], TileSize[2], area[2])>>
        size == <<Size(TileSize[1], area[1]), Size(TileSize[2], area[2])>>
    IN  [img EXCEPT !.pixels =
            [q \in DOMAIN img.pixels |->
                IF /\ to[1] <= q[1] /\ q[1] < to[1] + size[1]
                   /\ to[2] <= q[2] /\ q[2] < to[2] + size[2]
                THEN original.pixels[<<from[1] + (q[1] - to[1]),
                                       from[2] + (q[2] - to[2])>>]
                ELSE IF /\ q[1] \div (TileSize[1] + 2) = tileset_pos[1]
                        /\ q[2] \div (TileSize[2] + 2) = tileset_pos[2]
                THEN Blank
                ELSE img.pixels[q]]]

\* expanded_image after copy(tileset_pos, area)
Copied(img, tileset_pos, area) ==
    LET to == <<To(tileset_pos[1], TileSize[1], area[1]),
                To(tileset_pos[2], TileSize[2], area[2])>>
        from == <<From(tileset_pos[1], TileSize[1], area[1]),
                  From(tileset_pos[2], TileSize[2], area[2])>>
        size == <<Size(TileSize[1], area[1]), Size(TileSize[2], area[2])>>
    IN  [img EXCEPT !.pixels =
            [q \in DOMAIN img.pixels |->
                IF /\ to[1] <= q[1] /\ q[1] < to[1] + size[1]
                   /\ to[2] <= q[2] /\ q[2] < to[2] + size[2]
                THEN original.pixels[<<from[1] + (q[1] - to[1]),
                                       from[2] + (q[2] - to[2])>>]
                ELSE img.pixels[q]]]

\* for tile in def.tiles.values(): the HashMap yields some tile not yet seen
NextTile ==
    /\ apc = "tiles"
    /\ cur = None
    /\ \E name \in todo :
        /\ cur' = Some(name)
        /\ todo' = todo \ {name}
    /\ ruleIdx' = 0
    /\ dir' = 0
    /\ UNCHANGED <<pending, loading, uvRect, config, original, expanded, apc, built, meshVars, loadVars, inputVars>>

\* the tile and the rule the loops of the builder stand at
CurTile == tiles[cur[1]]
CurRule == CurTile.rules[ruleIdx]

Clamp(x, lo, hi) == IF x < lo THEN lo ELSE IF x > hi THEN hi ELSE x

\* the whole padded cell written from the source cell, the border taking the
\* colour of the nearest pixel of the cell
ClampedCell(img, tileset_pos) ==
    [img EXCEPT !.pixels =
        [q \in DOMAIN img.pixels |->
            IF /\ q[1] \div (TileSize[1] + 2) = tileset_pos[1]
               /\ q[2] \div (TileSize[2] + 2) = tileset_pos[2]
            THEN original.pixels[
                    <<tileset_pos[1] * TileSize[1]
                        + Clamp((q[1] % (TileSize[1] + 2)) - 1, 0, TileSize[1] - 1),
                      tileset_pos[2] * TileSize[2]
                        + Clamp((q[2] % (TileSize[2] + 2)) - 1, 0, TileSize[2] - 1)>>]
            ELSE img.pixels[q]]]

\* the default copied with its border clamped to the edge of the cell
CopyDefaultClamped ==
    /\ apc = "tiles"
    /\ cur # None
    /\ ruleIdx = 0
    /\ CurTile.default # None
    /\ Fits(CurTile.default[1], <<"Middle", "Middle">>)
    /\ expanded' = Some(ClampedCell(expanded[1], CurTile.default[1]))
    /\ ruleIdx' = 1
    /\ UNCHANGED <<pending, loading, uvRect, config, original, todo, cur, dir, apc, built,
                   meshVars, loadVars, inputVars>>

\* if let Some(default) = tile.default { copy(default, splat(Middle)) }
CopyDefault ==
    /\ apc = "tiles"
    /\ cur # None
    /\ ruleIdx = 0
    /\ CurTile.default # None
    /\ Fits(CurTile.default[1], <<"Middle", "Middle">>)
    /\ expanded' = Some(Copied(expanded[1], CurTile.default[1],
                               <<"Middle", "Middle">>))
    /\ ruleIdx' = 1
    /\ UNCHANGED <<pending, loading, uvRect, config, original, todo, cur, dir, apc, built,
                   meshVars, loadVars, inputVars>>

\* the default lies outside the source atlas: view or the unwrap panics
CopyDefaultOutside ==
    /\ apc = "tiles"
    /\ cur # None
    /\ ruleIdx = 0
    /\ CurTile.default # None
    /\ ~Fits(CurTile.default[1], <<"Middle", "Middle">>)
    /\ apc' = "panicked"
    /\ UNCHANGED <<pending, loading, uvRect, config, original, expanded, todo, cur, ruleIdx, dir, built,
                   meshVars, loadVars, inputVars>>

\* tile.default is None
NoDefault ==
    /\ apc = "tiles"
    /\ cur # None
    /\ ruleIdx = 0
    /\ CurTile.default = None
    /\ ruleIdx' = 1
    /\ UNCHANGED <<pending, loading, uvRect, config, original, expanded, todo, cur, dir, apc, built,
                   meshVars, loadVars, inputVars>>

\* the loops stand at (dx, dy) = Delta(dir) of a rule of the tile
AtDirection ==
    /\ apc = "tiles"
    /\ cur # None
    /\ ruleIdx \in 1 .. Len(CurTile.rules)
    /\ dir < 9

\* rule.connections.get(&vec2(dx, dy)) is Some(ConnectionFilter::Same)
IsSame(rule, d) ==
    d \in DOMAIN rule.connections /\ rule.connections[d] = "Same"

\* the area taken from vec2(dx, dy), the vertical axis not reversed
CopySameUnreversed ==
    /\ AtDirection
    /\ IsSame(CurRule, Delta(dir))
    /\ Fits(CurRule.tileset_pos, <<Area(Delta(dir)[1]), Area(Delta(dir)[2])>>)
    /\ expanded' = Some(Copied(expanded[1], CurRule.tileset_pos,
                               <<Area(Delta(dir)[1]), Area(Delta(dir)[2])>>))
    /\ dir' = dir + 1
    /\ UNCHANGED <<pending, loading, uvRect, config, original, todo, cur, ruleIdx, apc, built,
                   meshVars, loadVars, inputVars>>

\* the copy left out for (dx, dy) = (0, 0)
CopySameBorderOnly ==
    /\ AtDirection
    /\ IsSame(CurRule, Delta(dir))
    /\ Fits(CurRule.tileset_pos, <<Area(Delta(dir)[1]), Area(-Delta(dir)[2])>>)
    /\ expanded' =
        IF Delta(dir) = <<0, 0>>
        THEN expanded
        ELSE Some(Copied(expanded[1], CurRule.tileset_pos,
                         <<Area(Delta(dir)[1]), Area(-Delta(dir)[2])>>))
    /\ dir' = dir + 1
    /\ UNCHANGED <<pending, loading, uvRect, config, original, todo, cur,
                   ruleIdx, apc, built, meshVars, loadVars, inputVars>>

\* copy(rule.tileset_pos, vec2(dx, -dy).map(..))
CopySame ==
    /\ AtDirection
    /\ IsSame(CurRule, Delta(dir))
    /\ Fits(CurRule.tileset_pos, <<Area(Delta(dir)[1]), Area(-Delta(dir)[2])>>)
    /\ expanded' = Some(Copied(expanded[1], CurRule.tileset_pos,
                               <<Area(Delta(dir)[1]), Area(-Delta(dir)[2])>>))
    /\ dir' = dir + 1
    /\ UNCHANGED <<pending, loading, uvRect, config, original, todo, cur, ruleIdx, apc, built,
                   meshVars, loadVars, inputVars>>

\* the rule's cell lies outside the source atlas: view or the unwrap panics
CopySameOutside ==
    /\ AtDirection
    /\ IsSame(CurRule, Delta(dir))
    /\ ~Fits(CurRule.tileset_pos, <<Area(Delta(dir)[1]), Area(-Delta(dir)[2])>>)
    /\ apc' = "panicked"
    /\ UNCHANGED <<pending, loading, uvRect, config, original, expanded, todo, cur, ruleIdx, dir, built,
                   meshVars, loadVars, inputVars>>

\* the if let does not match: no entry, or a filter other than Same
NoCopy ==
    /\ AtDirection
    /\ ~IsSame(CurRule, Delta(dir))
    /\ dir' = dir + 1
    /\ UNCHANGED <<pending, loading, uvRect, config, original, expanded, todo, cur, ruleIdx, apc, built,
                   meshVars, loadVars, inputVars>>

\* the nine (dx, dy) of the rule are done
EndRule ==
    /\ apc = "tiles"
    /\ cur # None
    /\ ruleIdx \in 1 .. Len(CurTile.rules)
    /\ dir = 9
    /\ ruleIdx' = ruleIdx + 1
    /\ dir' = 0
    /\ UNCHANGED <<pending, loading, uvRect, config, original, expanded, todo, cur, apc, built,
                   meshVars, loadVars, inputVars>>

\* the rules of the tile are done
EndTile ==
    /\ apc = "tiles"
    /\ cur # None
    /\ ruleIdx > Len(CurTile.rules)
    /\ cur' = None
    /\ ruleIdx' = 0
    /\ UNCHANGED <<pending, loading, uvRect, config, original, expanded, todo, dir, apc, built,
                   meshVars, loadVars, inputVars>>

\* Texture::from_image_image(.., expanded_image); Ok(Self { texture, def })
BuildTexture ==
    /\ apc = "tiles"
    /\ cur = None
    /\ todo = {}
    /\ apc' = "done"
    /\ built' = Some([texture |-> expanded[1], def |-> tiles])
    /\ UNCHANGED <<pending, loading, uvRect, config, original, expanded, todo, cur, ruleIdx, dir,
                   meshVars, loadVars, inputVars>>

\* a / b kept exact as the pair (a, b); the f32 rounding of the division is
\* left out
Frac(a, b) == <<a, b>>

\* 1.0 - v.y
OneMinus(f) == Frac(f[2] - f[1], f[2])

\* uv_impl without the mem::swap of min.y and max.y
UvImplUnswapped(tileset_pos, texture_size, shrink) ==
    LET pixel_uv ==
            [min |-> <<tileset_pos[1] * (TileSize[1] + 2) + shrink,
                       tileset_pos[2] * (TileSize[2] + 2) + shrink>>,
             max |-> <<(tileset_pos[1] + 1) * (TileSize[1] + 2) - shrink,
                       (tileset_pos[2] + 1) * (TileSize[2] + 2) - shrink>>]
    IN  [min |-> <<Frac(pixel_uv.min[1], texture_size[1]),
                   OneMinus(Frac(pixel_uv.min[2], texture_size[2]))>>,
         max |-> <<Frac(pixel_uv.max[1], texture_size[1]),
                   OneMinus(Frac(pixel_uv.max[2], texture_size[2]))>>]

\* uv_impl: the pixel rectangle of the padded cell, shrunk, divided by the
\* texture size, v flipped, then min.y and max.y swapped
UvImpl(tileset_pos, texture_size, shrink) ==
    LET pixel_uv ==
            [min |-> <<tileset_pos[1] * (TileSize[1] + 2) + shrink,
                       tileset_pos[2] * (TileSize[2] + 2) + shrink>>,
             max |-> <<(tileset_pos[1] + 1) * (TileSize[1] + 2) - shrink,
                       (tileset_pos[2] + 1) * (TileSize[2] + 2) - shrink>>]
        flipped ==
            [min |-> <<Frac(pixel_uv.min[1], texture_size[1]),
                       OneMinus(Frac(pixel_uv.min[2], texture_size[2]))>>,
             max |-> <<Frac(pixel_uv.max[1], texture_size[1]),
                       OneMinus(Frac(pixel_uv.max[2], texture_size[2]))>>]
    IN  [min |-> <<flipped.min[1], flipped.max[2]>>,
         max |-> <<flipped.max[1], flipped.min[2]>>]

\* the atlas coordinates the built texture has a padded cell for
AtlasCells ==
    (0 .. (built[1].texture.width \div (TileSize[1] + 2)) - 1)
        \X (0 .. (built[1].texture.height \div (TileSize[2] + 2)) - 1)

\* def.uv(tileset_pos, texture.size())
Uv ==
    /\ apc = "done"
    /\ \E tileset_pos \in AtlasCells :
        uvRect' = Some([tileset_pos |-> tileset_pos, border |-> FALSE,
                        uv |-> UvImpl(tileset_pos,
                                      <<built[1].texture.width,
                                        built[1].texture.height>>, 1)])
    /\ UNCHANGED <<pending, loading, config, original, expanded, todo, cur,
                   ruleIdx, dir, apc, built, meshVars, loadVars, inputVars>>

\* def.uv_with_border(tileset_pos, texture.size())
UvWithBorder ==
    /\ apc = "done"
    /\ \E tileset_pos \in AtlasCells :
        uvRect' = Some([tileset_pos |-> tileset_pos, border |-> TRUE,
                        uv |-> UvImpl(tileset_pos,
                                      <<built[1].texture.width,
                                        built[1].texture.height>>, 0)])
    /\ UNCHANGED <<pending, loading, config, original, expanded, todo, cur,
                   ruleIdx, dir, apc, built, meshVars, loadVars, inputVars>>

NextAtlas ==
    \/ LoadDefFails
    \/ LoadConfig
    \/ LoadRulesFails
    \/ LoadRulesPanics
    \/ InsertTile
    \/ LoadDef
    \/ LoadImageFails
    \/ LoadImage
    \/ AssertFails
    \/ Allocate
    \/ NextTile
    \/ CopyDefault
    \/ CopyDefaultOutside
    \/ NoDefault
    \/ CopySame
    \/ CopySameOutside
    \/ NoCopy
    \/ EndRule
    \/ EndTile
    \/ BuildTexture
    \/ Uv
    \/ UvWithBorder

SpecAtlas == InitAtlas /\ [][NextAtlas]_vars

-----------------------------------------------------------------------------
(* The padded atlas as section 4.5 describes it *)

\* the padded cell a pixel of the padded atlas lies in, and its place there
PaddedCell(q) == <<q[1] \div (TileSize[1] + 2), q[2] \div (TileSize[2] + 2)>>
Local(q) == <<q[1] % (TileSize[1] + 2), q[2] % (TileSize[2] + 2)>>

\* the pixels of padded cell c that lie toward world direction d: the first
\* column for d.x = -1, the last for d.x = +1, the interior columns for 0;
\* the first row for d.y = +1 (up is the top of the image), the last for -1
Side(c, d) ==
    { <<c[1] * (TileSize[1] + 2) + x, c[2] * (TileSize[2] + 2) + y>> :
        x \in (IF d[1] = -1 THEN {0}
               ELSE IF d[1] = 1 THEN {TileSize[1] + 1}
               ELSE 1 .. TileSize[1]),
        y \in (IF d[2] = 1 THEN {0}
               ELSE IF d[2] = -1 THEN {TileSize[2] + 1}
               ELSE 1 .. TileSize[2]) }

\* the pixel of the source cell nearest to pixel q of its padded cell
Nearest(q) ==
    <<PaddedCell(q)[1] * TileSize[1]
        + (IF Local(q)[1] = 0 THEN 0
           ELSE IF Local(q)[1] = TileSize[1] + 1 THEN TileSize[1] - 1
           ELSE Local(q)[1] - 1),
      PaddedCell(q)[2] * TileSize[2]
        + (IF Local(q)[2] = 0 THEN 0
           ELSE IF Local(q)[2] = TileSize[2] + 1 THEN TileSize[2] - 1
           ELSE Local(q)[2] - 1)>>

\* the atlas coordinates the database asks a copy for, with the direction
DefaultCells ==
    { tiles[n].default[1] : n \in {m \in DOMAIN tiles : tiles[m].default # None} }

AllRules ==
    UNION { {tiles[n].rules[i] : i \in 1 .. Len(tiles[n].rules)} :
            n \in DOMAIN tiles }

SameToward(c, d) ==
    \E r \in AllRules :
        /\ r.tileset_pos = c
        /\ d \in DOMAIN r.connections
        /\ r.connections[d] = "Same"

\* the world direction in which pixel q lies within its padded cell
Toward(q) ==
    <<IF Local(q)[1] = 0 THEN -1
      ELSE IF Local(q)[1] = TileSize[1] + 1 THEN 1 ELSE 0,
      IF Local(q)[2] = 0 THEN 1
      ELSE IF Local(q)[2] = TileSize[2] + 1 THEN -1 ELSE 0>>

\* what the database and the source alone say pixel q of the atlas holds,
\* defaults being the cells of the defaults and rules the rules of all tiles
ExpectedFrom(defaults, rules, q) ==
    IF \/ Toward(q) = <<0, 0>> /\ PaddedCell(q) \in defaults
       \/ \E r \in rules :
            /\ r.tileset_pos = PaddedCell(q)
            /\ Toward(q) \in DOMAIN r.connections
            /\ r.connections[Toward(q)] = "Same"
    THEN original.pixels[Nearest(q)]
    ELSE Blank

ExpectedPixel(q) == ExpectedFrom(DefaultCells, AllRules, q)

\* some copy the database asks for lies outside the source atlas
AsksOutside ==
    \E c \in DefaultCells \cup
             {r.tileset_pos : r \in {s \in AllRules :
                \E d \in DOMAIN s.connections : s.connections[d] = "Same"}} :
        \/ (c[1] + 1) * TileSize[1] > original.width
        \/ (c[2] + 1) * TileSize[2] > original.height

\* C14: for a source atlas of W x H pixels, W and H multiples of tile_size,
\* the padded atlas has width (W / tile_size.x) * (tile_size.x + 2) and height
\* (H / tile_size.y) * (tile_size.y + 2): as many cells as the source, each
\* tile_size + 2 pixels per axis.
C14_PaddedSize ==
    expanded # None =>
        /\ expanded[1].width * TileSize[1] = original.width * (TileSize[1] + 2)
        /\ expanded[1].height * TileSize[2] = original.height * (TileSize[2] + 2)
        /\ expanded[1].width \div (TileSize[1] + 2) = original.width \div TileSize[1]
        /\ expanded[1].height \div (TileSize[2] + 2) = original.height \div TileSize[2]
        /\ DOMAIN expanded[1].pixels =
            (0 .. expanded[1].width - 1) \X (0 .. expanded[1].height - 1)
        /\ apc = "done" =>
            /\ built[1].texture.width = expanded[1].width
            /\ built[1].texture.height = expanded[1].height

\* a source of two cells side by side became an atlas 10 pixels wide
C14_Witness ==
    /\ apc = "done"
    /\ original.width = 2 * TileSize[1]
    /\ built[1].texture.width = 2 * (TileSize[1] + 2)
    /\ built[1].texture.height = TileSize[2] + 2

\* C15 as stated: for every tile with a default d, after the atlas is built
\* the interior of padded cell d equals source cell d and each of the four
\* border strips of padded cell d equals the adjacent outermost column or row
\* of source cell d.
C15_DefaultIsEdgeClamped ==
    apc = "done" =>
        \A c \in DefaultCells :
            /\ \A q \in Side(c, <<0, 0>>) :
                built[1].texture.pixels[q] = original.pixels[Nearest(q)]
            /\ \A d \in {<<-1, 0>>, <<1, 0>>, <<0, 1>>, <<0, -1>>} :
                \A q \in Side(c, d) :
                    built[1].texture.pixels[q] = original.pixels[Nearest(q)]

\* C15 as amended: for every tile with a default d, after the atlas is built
\* the interior of padded cell d equals source cell d; the default itself
\* writes no border pixel: a border pixel of padded cell d equals the nearest
\* pixel of source cell d only where some rule with atlas coordinate d
\* declares Same toward that side, and otherwise keeps the transparent value
\* the padded image was allocated with.
C15_DefaultCopiesInteriorOnly ==
    /\ apc = "done" =>
        \A c \in DefaultCells :
            /\ \A q \in Side(c, <<0, 0>>) :
                built[1].texture.pixels[q] = original.pixels[Nearest(q)]
            /\ \A d \in Offsets \ {<<0, 0>>} :
                \A q \in Side(c, d) :
                    built[1].texture.pixels[q] =
                        IF SameToward(c, d) THEN original.pixels[Nearest(q)]
                        ELSE Blank
    /\ (apc = "tiles" /\ cur # None /\ ruleIdx = 0 /\ ENABLED CopyDefault) =>
        ~ENABLED (CopyDefault
                    /\ \E q \in DOMAIN expanded[1].pixels :
                        /\ Toward(q) # <<0, 0>>
                        /\ expanded'[1].pixels[q] # expanded[1].pixels[q])

\* an atlas was built in which the cell of a default has its interior and a
\* border that is still transparent
C15_Witness ==
    /\ apc = "done"
    /\ \E c \in DefaultCells :
        /\ \A q \in Side(c, <<0, 0>>) :
            built[1].texture.pixels[q] = original.pixels[Nearest(q)]
        /\ \E q \in Side(c, <<-1, 0>>) : built[1].texture.pixels[q] = Blank

\* C16: for every rule and every direction (dx, dy) around the cell whose
\* filter in that rule is exactly Same, the step of the builder fills the
\* border of the rule's own padded cell on that side from the edge of the
\* rule's source cell facing that direction (world up is the image's top
\* row): a full strip for an axis direction, the one corner pixel for a
\* diagonal, and nothing else changes; a direction whose filter is absent or
\* is Anything, Empty, NotEmpty or Different changes no pixel.
C16_SameFillsThatSide ==
    [][(AtDirection /\ dir' = dir + 1 /\ Delta(dir) # <<0, 0>>) =>
        IF Delta(dir) \in DOMAIN CurRule.connections
            /\ CurRule.connections[Delta(dir)] = "Same"
        THEN /\ Cardinality(Side(CurRule.tileset_pos, Delta(dir))) =
                    (IF Delta(dir)[1] = 0 THEN TileSize[1] ELSE 1)
                        * (IF Delta(dir)[2] = 0 THEN TileSize[2] ELSE 1)
             /\ \A q \in DOMAIN expanded[1].pixels :
                    expanded'[1].pixels[q] =
                        IF q \in Side(CurRule.tileset_pos, Delta(dir))
                        THEN original.pixels[Nearest(q)]
                        ELSE expanded[1].pixels[q]
        ELSE expanded' = expanded]_vars

\* the rule that declares Same to the right, up and up-right had the right
\* strip, the top strip and the top right corner of its padded cell filled
C16_Witness ==
    /\ apc = "done"
    /\ \E r \in AllRules :
        /\ r.tileset_pos = <<0, 0>>
        /\ <<1, 1>> \in DOMAIN r.connections
        /\ r.connections[<<1, 1>>] = "Same"
    /\ built[1].texture.pixels[<<TileSize[1] + 1, 0>>] =
            original.pixels[<<TileSize[1] - 1, 0>>]
    /\ built[1].texture.pixels[<<1, 0>>] = original.pixels[<<0, 0>>]
    /\ built[1].texture.pixels[<<TileSize[1] + 1, TileSize[2]>>] =
            original.pixels[<<TileSize[1] - 1, TileSize[2] - 1>>]
    /\ built[1].texture.pixels[<<0, 0>>] = Blank

\* C17: if the width of the source atlas is not a multiple of tile_size.x or
\* its height not a multiple of tile_size.y, construction fails on the
\* assertion: the padded image is never allocated, no pixel is copied and no
\* Tileset is produced.
C17_AssertBeforeAllocation ==
    (original.width % TileSize[1] # 0 \/ original.height % TileSize[2] # 0) =>
        /\ expanded = None
        /\ apc \in {"start", "def", "image", "assert", "failed", "panicked"}
        /\ cur = None /\ todo = {}
        /\ built # None => apc = "failed"
        /\ apc = "assert" => ENABLED AssertFails /\ ~ENABLED Allocate
        /\ apc = "panicked" => built = None

\* the assertion on the height failed, nothing was allocated
C17_Witness ==
    /\ apc = "panicked"
    /\ original.width % TileSize[1] = 0
    /\ original.height % TileSize[2] # 0
    /\ expanded = None
    /\ built = None

\* C18: the padded atlas is a function of the source image and the tile
\* database alone, whatever order the HashMap yields the tiles in: every
\* copy writes into a pixel the value the database and the source fix for
\* it, so copies that overlap write the same value and the steps commute;
\* whether construction ends in a panic does not depend on the order either.
C18_BuilderIsOrderIndependent ==
    /\ expanded # None =>
        LET defaults == DefaultCells
            rules == AllRules
        IN  \A q \in DOMAIN expanded[1].pixels :
                expanded[1].pixels[q] # Blank =>
                    expanded[1].pixels[q] = ExpectedFrom(defaults, rules, q)
    /\ apc = "done" =>
        /\ LET defaults == DefaultCells
               rules == AllRules
           IN  built[1].texture.pixels =
                [q \in DOMAIN expanded[1].pixels |->
                    ExpectedFrom(defaults, rules, q)]
        /\ ~AsksOutside
    /\ (apc = "panicked" /\ expanded # None) => AsksOutside

\* two tiles were processed whose rules write the same strip of one cell
C18_Witness ==
    /\ apc = "done"
    /\ Cardinality(DOMAIN tiles) = 2
    /\ \E n, m \in DOMAIN tiles :
        /\ n # m
        /\ \E i \in 1 .. Len(tiles[n].rules) :
            \E j \in 1 .. Len(tiles[m].rules) :
                /\ tiles[n].rules[i].tileset_pos = tiles[m].rules[j].tileset_pos
                /\ \E d \in Offsets :
                    /\ IsSame(tiles[n].rules[i], d)
                    /\ IsSame(tiles[m].rules[j], d)

\* a <= b and a = b for exact fractions with positive denominators
Leq(a, b) == a[1] * b[2] <= b[1] * a[2]
EqFrac(a, b) == a[1] * b[2] = b[1] * a[2]

\* the pixels of the atlas whose square lies inside the uv rectangle r, a
\* pixel (x, y) covering u in [x / W, (x + 1) / W] and v in
\* [1 - (y + 1) / H, 1 - y / H]
PixelsInside(r) ==
    LET W == built[1].texture.width
        H == built[1].texture.height
    IN  { q \in DOMAIN built[1].texture.pixels :
            /\ Leq(r.min[1], <<q[1], W>>) /\ Leq(<<q[1] + 1, W>>, r.max[1])
            /\ Leq(r.min[2], <<H - (q[2] + 1), H>>)
            /\ Leq(<<H - q[2], H>>, r.max[2]) }

\* C19: uv_with_border(p) is the pixel rectangle from p * (tile_size + 2) to
\* (p + 1) * (tile_size + 2), uv(p) that rectangle shrunk by one pixel on
\* every side, which is the interior of padded cell p the builder copies the
\* cell into; both divided by the atlas size, v = 1 - y / height, and kept
\* ordered, min.y <= max.y.
C19_UvRectangles ==
    uvRect # None =>
        LET p == uvRect[1].tileset_pos
            r == uvRect[1].uv
            s == IF uvRect[1].border THEN 0 ELSE 1
            W == built[1].texture.width
            H == built[1].texture.height
        IN  /\ EqFrac(r.min[1], <<p[1] * (TileSize[1] + 2) + s, W>>)
            /\ EqFrac(r.max[1], <<(p[1] + 1) * (TileSize[1] + 2) - s, W>>)
            /\ EqFrac(r.max[2], <<H - (p[2] * (TileSize[2] + 2) + s), H>>)
            /\ EqFrac(r.min[2], <<H - ((p[2] + 1) * (TileSize[2] + 2) - s), H>>)
            /\ Leq(r.min[1], r.max[1])
            /\ Leq(r.min[2], r.max[2])
            /\ PixelsInside(r) =
                IF uvRect[1].border
                THEN UNION {Side(p, d) : d \in Offsets}
                ELSE Side(p, <<0, 0>>)
            /\ (~uvRect[1].border /\ p \in DefaultCells) =>
                \A q \in DOMAIN built[1].texture.pixels :
                    q \in PixelsInside(r) <=>
                        /\ PaddedCell(q) = p
                        /\ built[1].texture.pixels[q] # Blank
                        /\ Toward(q) = <<0, 0>>

\* uv was asked for the second cell of an atlas two cells wide
C19_Witness ==
    /\ uvRect # None
    /\ ~uvRect[1].border
    /\ uvRect[1].tileset_pos = <<1, 0>>
    /\ uvRect[1].tileset_pos \in DefaultCells
    /\ Cardinality(PixelsInside(uvRect[1].uv)) = TileSize[1] * TileSize[2]

\* TilesetDef::load has filled def.tiles from config.tiles
Loaded == DOMAIN tiles = DOMAIN config /\ DOMAIN config # {}

\* neighbour functions: the four axis neighbours vary freely, the four
\* diagonal ones together
Neighbourhoods ==
    { [d \in Offsets |->
            IF d = <<0, 0>> THEN "Same"
            ELSE IF d = <<1, 0>> THEN a[1]
            ELSE IF d = <<-1, 0>> THEN a[2]
            ELSE IF d = <<0, 1>> THEN a[3]
            ELSE IF d = <<0, -1>> THEN a[4]
            ELSE a[5]] :
        a \in [1 .. 5 -> Connection] }

\* C20: a tile configured as At(x, y) is loaded as a Tile with no rules and
\* default (x, y), and its tileset_pos is (x, y) for every neighbour
\* function; a tile with no rules and no default has tileset_pos None for
\* every neighbour function.
C20_LiteralAndEmptyTiles ==
    (Loaded /\ apc = "image") =>
        \A n \in DOMAIN config :
            /\ config[n].kind = "At" =>
                /\ tiles[n].rules = <<>>
                /\ tiles[n].default = <<(<<config[n].x, config[n].y>>)>>
                /\ \A f \in Neighbourhoods :
                    TilesetPos(tiles[n], f) = {<<(<<config[n].x, config[n].y>>)>>}
            /\ (tiles[n].rules = <<>> /\ tiles[n].default = <<>>) =>
                \A f \in Neighbourhoods : TilesetPos(tiles[n], f) = {<<>>}

\* a database was loaded that holds At(1, 0) and a tile without rules and
\* without default
C20_Witness ==
    /\ Loaded
    /\ apc = "image"
    /\ \E n, m \in DOMAIN config :
        /\ config[n].kind = "At" /\ config[n].x = 1 /\ config[n].y = 0
        /\ tiles[n].default = <<(<<1, 0>>)>>
        /\ tiles[m].rules = <<>> /\ tiles[m].default = <<>>

\* C21: TilesetDef::load either returns a TilesetDef holding one Tile for
\* every tile name of the configuration, or fails outright: the step on which
\* a rule image fails returns the error, no further tile is loaded afterwards
\* and the tiles loaded so far are never handed out.
C21_CompleteOrNothing ==
    /\ [](tiles # <<>> =>
            /\ DOMAIN tiles = DOMAIN config
            /\ pending = {}
            /\ \A n \in DOMAIN config :
                /\ tiles[n].rules =
                    (IF config[n].kind = "AutoTile"
                     THEN config[n].color_coded_rules ELSE <<>>)
                /\ tiles[n].default =
                    (IF config[n].kind = "AutoTile" THEN config[n].default
                     ELSE <<(<<config[n].x, config[n].y>>)>>))
    /\ []((apc = "failed" /\ expanded = None /\ pending # {}) =>
            /\ tiles = <<>>
            /\ built # None
            /\ ~ENABLED InsertTile
            /\ ~ENABLED LoadDef)
    /\ [][(apc = "def" /\ apc' = "failed") =>
            /\ built' # None
            /\ tiles' = <<>>
            /\ loading' = loading
            /\ pending' = pending]_vars
    /\ [][(apc = "def" /\ apc' = "def") =>
            Cardinality(pending') = Cardinality(pending) - 1
                /\ DOMAIN loading' = DOMAIN loading \cup (pending \ pending')]_vars

\* the rule image of the second entry failed after the first entry was loaded
C21_Witness ==
    /\ apc = "failed"
    /\ DOMAIN loading # {}
    /\ pending # {}
    /\ tiles = <<>>
    /\ built # None

\* px of the claim: the pixel index within a cell that stands for -1, 0, +1
Px(v, size) == IF v = -1 THEN 0 ELSE IF v = 0 THEN size \div 2 ELSE size - 1

\* the rules returned for cell c
RulesAt(c) ==
    {returned[1][i] : i \in {j \in 1 .. Len(returned[1]) :
                                returned[1][j].tileset_pos = c}}

\* C22: for each cell of the reference image and each of the eight
\* directions, the decoded rule holds a constraint at world offset (dx, dy)
\* iff the cell's pixel at (px(dx), px(-dy)) has non-zero alpha and a table
\* entry Some(filter), and then the constraint is that filter; the top row of
\* the cell encodes dy = +1.
C22_PixelOfDirection ==
    pc = "done" =>
        \A c \in GridCells :
            \A d \in Offsets \ {<<0, 0>>} :
                LET pixel == image[<<c[1] * TileSize[1] + Px(d[1], TileSize[1]),
                                     c[2] * TileSize[2] + Px(-d[2], TileSize[2])>>]
                    coded == /\ pixel.a # 0
                             /\ pixel \in DOMAIN ColorRules
                             /\ ColorRules[pixel] # <<>>
                IN  /\ coded <=>
                        \E r \in RulesAt(c) : d \in DOMAIN r.connections
                    /\ coded =>
                        \A r \in RulesAt(c) :
                            r.connections[d] = ColorRules[pixel][1]

\* a cell painted white in the middle of its top row only was decoded to a
\* rule that constrains the upward offset and not the downward one
C22_Witness ==
    /\ pc = "done"
    /\ \E c \in GridCells :
        /\ image[<<c[1] * TileSize[1] + 1, c[2] * TileSize[2]>>] = White
        /\ image[<<c[1] * TileSize[1] + 1, c[2] * TileSize[2] + 2>>].a = 0
        /\ \E r \in RulesAt(c) :
            /\ <<0, 1>> \in DOMAIN r.connections
            /\ <<0, -1>> \notin DOMAIN r.connections

\* C23 as stated: every key of a loaded rule's connection map is one of the
\* eight non-zero offsets; no rule has an entry at offset (0, 0).
C23_NoCentreEntry ==
    /\ \A i \in 1 .. Len(result) :
        DOMAIN result[i].connections \subseteq Offsets \ {<<0, 0>>}
    /\ DOMAIN connections \subseteq Offsets \ {<<0, 0>>}

\* C23 as amended: every key of a loaded rule's connection map is one of the
\* nine offsets with components in {-1, 0, 1}; the centre sample is decoded
\* like the other eight, so a returned rule has an entry at (0, 0) exactly
\* when the midpoint pixel of its cell has non-zero alpha and a table entry
\* Some(filter), and that entry is the filter.
C23_CentreIsRecorded ==
    /\ \A i \in 1 .. Len(result) :
        DOMAIN result[i].connections \subseteq Offsets
    /\ DOMAIN connections \subseteq Offsets
    /\ pc = "done" =>
        \A c \in GridCells :
            LET pixel == image[<<c[1] * TileSize[1] + TileSize[1] \div 2,
                                 c[2] * TileSize[2] + TileSize[2] \div 2>>]
                coded == /\ pixel.a # 0
                         /\ pixel \in DOMAIN ColorRules
                         /\ ColorRules[pixel] # <<>>
            IN  /\ coded <=>
                    \E r \in RulesAt(c) : <<0, 0>> \in DOMAIN r.connections
                /\ coded =>
                    \A r \in RulesAt(c) :
                        r.connections[<<0, 0>>] = ColorRules[pixel][1]

\* a rule was returned whose only entry is the one of the centre sample
C23_Witness ==
    /\ pc = "done"
    /\ \E i \in 1 .. Len(returned[1]) :
        DOMAIN returned[1][i].connections = {<<0, 0>>}

\* C24: every rule returned carries the (column, row) index of the cell it
\* was decoded from; no two rules of one image share an atlas coordinate, and
\* there are as many rules as cells that yielded at least one constraint.
C24_RuleTaggedWithCell ==
    pc = "done" =>
        /\ \A i \in 1 .. Len(returned[1]) :
            /\ returned[1][i].tileset_pos \in GridCells
            /\ \A d \in DOMAIN returned[1][i].connections :
                Encoding(returned[1][i].tileset_pos, d) = White
        /\ \A i, j \in 1 .. Len(returned[1]) :
            i # j => returned[1][i].tileset_pos # returned[1][j].tileset_pos
        /\ Len(returned[1]) =
            Cardinality({c \in GridCells :
                            \E d \in Offsets : Encoding(c, d) = White})

\* the one rule of an image of two rows came from the cell of the second row
C24_Witness ==
    /\ pc = "done"
    /\ grid = <<1, 2>>
    /\ Len(returned[1]) = 1
    /\ returned[1][1].tileset_pos = <<0, 1>>

\* the cell at pos resolves to some atlas coordinate: a rule of its tile is
\* satisfied or the tile has a default
Renders(pos) ==
    /\ Known(pos)
    /\ \/ Satisfied(tiles[NameAt(pos)], pos, NameAt(pos)) # {}
       \/ tiles[NameAt(pos)].default # <<>>

\* the positions a run must have yielded after idx - 1 listed elements
DueSoFar == SelectSeq(SubSeq(listed, 1, idx - 1), Renders)

\* C25: for a fixed tile database and occupancy map, the positions yielded and
\* their multiplicities do not depend on the random choice among matching
\* rules: after any number of steps the yielded positions are the listed
\* elements that resolve, in order; only the atlas coordinate of a cell with
\* more than one matching rule is left to chance.
C25_PositionsNotRandom ==
    /\ Len(mesh) = Len(DueSoFar)
    /\ \A k \in 1 .. Len(mesh) : mesh[k].pos = DueSoFar[k]
    /\ \A k \in 1 .. Len(mesh) :
        LET pos == mesh[k].pos
            tile == tiles[NameAt(pos)]
            matching == Satisfied(tile, pos, NameAt(pos))
        IN  /\ matching = {} => <<mesh[k].tileset_pos>> = tile.default
            /\ Cardinality(matching) = 1 =>
                \A i \in matching :
                    mesh[k].tileset_pos = tile.rules[i].tileset_pos
    /\ (Current /\ Renders(listed[idx])) => ENABLED Emit /\ ~ENABLED Omit
    /\ (Current /\ Known(listed[idx]) /\ ~Renders(listed[idx])) =>
            ENABLED Omit /\ ~ENABLED Emit

\* a finished run yielded two cells, one of which had two matching rules with
\* different atlas coordinates
C25_Witness ==
    /\ status = "done"
    /\ Len(mesh) = 2
    /\ \E k \in 1 .. Len(mesh) :
        LET pos == mesh[k].pos
            tile == tiles[NameAt(pos)]
            matching == Satisfied(tile, pos, NameAt(pos))
        IN  \E i, j \in matching :
                tile.rules[i].tileset_pos # tile.rules[j].tileset_pos

\* a connection map without its entry for the cell itself
WithoutCentre(conns) == [d \in DOMAIN conns \ {<<0, 0>>} |-> conns[d]]

\* C27: the connection generate_mesh evaluates for offset (0, 0) of a cell is
\* always Same; a rule that declares Empty or Different at (0, 0) matches no
\* occupied cell, and a rule that declares Same, NotEmpty or Anything at
\* (0, 0) matches exactly as it would without that entry.
C27_CentreIsSame ==
    (Current /\ Known(listed[idx])) =>
        LET pos == listed[idx]
            tile == tiles[NameAt(pos)]
            f == Neighbour(pos, NameAt(pos))
        IN  /\ f[<<0, 0>>] = "Same"
            /\ \A i \in 1 .. Len(tile.rules) :
                LET conns == tile.rules[i].connections IN
                <<0, 0>> \in DOMAIN conns =>
                    IF conns[<<0, 0>>] \in {"Empty", "Different"}
                    THEN /\ ~RuleMatches(tile.rules[i], f)
                         /\ i \notin MatchedRules(tile, f)
                    ELSE RuleMatches(tile.rules[i], f) <=>
                            RuleMatches(Rule(WithoutCentre(conns),
                                             tile.rules[i].tileset_pos), f)

\* a cell of the tile whose rules look at the centre only was yielded with
\* the coordinate of its Same / NotEmpty rules
C27_Witness ==
    /\ status = "done"
    /\ "wall" \in DOMAIN tiles
    /\ tiles["wall"] = CentreTile
    /\ \E k \in 1 .. Len(mesh) :
        /\ NameAt(mesh[k].pos) = "wall"
        /\ mesh[k].tileset_pos = <<2, 1>>

\* how often p occurs in a sequence of positions / of TexturedTiles
TimesListed(p) == Cardinality({i \in 1 .. Len(listed) : listed[i] = p})
TimesYielded(p) == Cardinality({k \in 1 .. Len(mesh) : mesh[k].pos = p})

\* C28: generate_mesh yields at most one TexturedTile per element of
\* non_empty_tiles() and keeps its order: each step consumes one element and
\* appends nothing or one tile at that element's position; an element for
\* which get_at is None is skipped without failure; a coordinate listed k
\* times is yielded k times when it resolves; the output is never longer than
\* the input.
C28_OnePerListedElement ==
    /\ [](Len(mesh) <= idx - 1 /\ idx - 1 <= Len(listed))
    /\ [](status = "done" =>
            \A p \in Pos :
                TimesYielded(p) = IF Renders(p) THEN TimesListed(p) ELSE 0)
    /\ [][mesh' # mesh =>
            /\ idx' = idx + 1
            /\ Len(mesh') = Len(mesh) + 1
            /\ SubSeq(mesh', 1, Len(mesh)) = mesh
            /\ mesh'[Len(mesh')].pos = listed[idx]]_vars
    /\ [][(Current /\ ~Occupied(listed[idx])) =>
            /\ status' = "running"
            /\ idx' = idx + 1
            /\ mesh' = mesh]_vars

\* a coordinate listed twice was yielded twice
C28_Witness ==
    /\ status = "done"
    /\ Len(listed) = 2
    /\ listed[1] = listed[2]
    /\ Len(mesh) = 2
    /\ mesh[1].pos = mesh[2].pos

\* the atlas coordinates the built atlas has a padded cell for
InAtlas(c) ==
    /\ c[1] < expanded[1].width \div (TileSize[1] + 2)
    /\ c[2] < expanded[1].height \div (TileSize[2] + 2)

\* the interior of padded cell c holds source cell c / is still transparent
InteriorCopied(c) ==
    \A q \in Side(c, <<0, 0>>) :
        built[1].texture.pixels[q] = original.pixels[Nearest(q)]
InteriorBlank(c) ==
    \A q \in Side(c, <<0, 0>>) : built[1].texture.pixels[q] = Blank

\* C26 as stated: the interior of a rule's padded cell is copied from the
\* source iff that rule declares Same at (0, 0) or the rule's atlas coordinate
\* is some tile's default; otherwise it keeps the transparent value.
C26_InteriorIffOwnCentreSame ==
    apc = "done" =>
        \A r \in {s \in AllRules : InAtlas(s.tileset_pos)} :
            IF IsSame(r, <<0, 0>>) \/ r.tileset_pos \in DefaultCells
            THEN InteriorCopied(r.tileset_pos)
            ELSE InteriorBlank(r.tileset_pos)

\* C26 as amended: the interior of a rule's padded cell is copied from the
\* source iff some rule with that atlas coordinate (that rule or another one,
\* of the same or of another tile) declares Same at (0, 0), or the
\* coordinate is some tile's default; otherwise it keeps the transparent
\* value the image was allocated with.
C26_InteriorIffAnyCentreSame ==
    apc = "done" =>
        \A r \in {s \in AllRules : InAtlas(s.tileset_pos)} :
            IF \/ \E o \in AllRules :
                    o.tileset_pos = r.tileset_pos /\ IsSame(o, <<0, 0>>)
               \/ r.tileset_pos \in DefaultCells
            THEN InteriorCopied(r.tileset_pos)
            ELSE InteriorBlank(r.tileset_pos)

\* an atlas was built in which one rule's cell got its interior through the
\* rule's Same at (0, 0) and another rule's cell stayed transparent inside
C26_Witness ==
    /\ apc = "done"
    /\ DefaultCells = {}
    /\ \E r, o \in AllRules :
        /\ IsSame(r, <<0, 0>>) /\ InteriorCopied(r.tileset_pos)
        /\ InAtlas(o.tileset_pos) /\ InteriorBlank(o.tileset_pos)

\* the atlas coordinate the builder stands at
CopyCell == IF ruleIdx = 0 THEN CurTile.default[1] ELSE CurRule.tileset_pos

\* C29: every copy for atlas coordinate p reads only pixels of source cell p
\* (p * tile_size .. p * tile_size + tile_size - 1 per axis) and writes only
\* pixels of padded cell p (p * (tile_size + 2) .. p * (tile_size + 2) +
\* tile_size + 1 per axis).
C29_CopyStaysInCell ==
    /\ [][(expanded # None /\ expanded' # expanded) =>
            \A q \in DOMAIN expanded[1].pixels :
                expanded'[1].pixels[q] # expanded[1].pixels[q] =>
                    /\ PaddedCell(q) = CopyCell
                    /\ \A axis \in 1 .. 2 :
                        /\ expanded'[1].pixels[q][axis]
                                >= CopyCell[axis] * TileSize[axis]
                        /\ expanded'[1].pixels[q][axis]
                                <= CopyCell[axis] * TileSize[axis]
                                    + TileSize[axis] - 1]_vars
    /\ [](cur # None =>
            \A axis \in 1 .. 2 : \A area \in {"Left", "Middle", "Right"} :
                \A c \in {r.tileset_pos : r \in AllRules} \cup DefaultCells :
                    LET t == TileSize[axis] IN
                    /\ From(c[axis], t, area) >= c[axis] * t
                    /\ From(c[axis], t, area) + Size(t, area) - 1
                            <= c[axis] * t + t - 1
                    /\ To(c[axis], t, area) >= c[axis] * (t + 2)
                    /\ To(c[axis], t, area) + Size(t, area) - 1
                            <= c[axis] * (t + 2) + t + 1)

\* the right border of the first cell was written while the left border of
\* the cell next to it is untouched
C29_Witness ==
    /\ expanded # None
    /\ expanded[1].width = 2 * (TileSize[1] + 2)
    /\ expanded[1].pixels[<<TileSize[1] + 1, 1>>] =
            original.pixels[<<TileSize[1] - 1, 0>>]
    /\ expanded[1].pixels[<<TileSize[1] + 2, 1>>] = Blank
    /\ apc = "done"

-----------------------------------------------------------------------------
(* input::Controller and the provided methods of input::Context *)

MaxCoord == 3
MaxTouchId == 2

\* screen positions, touch ids and config.min_drag_distance
InputPos == (0 .. MaxCoord) \X {0}
TouchIds == 1 .. MaxTouchId
MinDragDistance == 2

\* (a - b).len() > min_drag_distance, compared on the squares
Far(a, b) ==
    (a[1] - b[1]) * (a[1] - b[1]) + (a[2] - b[2]) * (a[2] - b[2])
        > MinDragDistance * MinDragDistance

\* enum Drag
DetectPhase(start_position, touch_id) ==
    [kind |-> "DetectPhase", start_position |-> start_position,
     touch_id |-> touch_id]
Camera == [kind |-> "Camera"]
Dragging == [kind |-> "Drag"]
Pinch(touches) == [kind |-> "Pinch", touches |-> touches]
Touch(id, pos) == [id |-> id, pos |-> pos]

IsKind(d, kind) == d # None /\ d[1].kind = kind

\* Controller::new
InitInput ==
    /\ cursor_pos = None
    /\ drag = None
    /\ events = <<>>
    /\ ipc = "ready"
    /\ tiles = <<>>
    /\ cells = <<>>
    /\ listed = <<>>
    /\ idx = 1
    /\ mesh = <<>>
    /\ status = "idle"
    /\ image = <<>>
    /\ grid = <<0, 0>>
    /\ pc = "idle"
    /\ cell = <<0, 0>>
    /\ probe = 0
    /\ connections = <<>>
    /\ result = <<>>
    /\ returned = None
    /\ config = <<>>
    /\ original = <<>>
    /\ expanded = <<>>
    /\ todo = {}
    /\ cur = <<>>
    /\ ruleIdx = 0
    /\ dir = 0
    /\ apc = "idle"
    /\ built = <<>>
    /\ uvRect = <<>>
    /\ pending = {}
    /\ loading = <<>>

\* handle_event(MousePress)
MousePress ==
    /\ ipc = "ready"
    /\ drag' = IF cursor_pos # None
               THEN Some(DetectPhase(cursor_pos[1], None))
               ELSE drag
    /\ events' = <<>>
    /\ UNCHANGED <<cursor_pos, ipc, meshVars, loadVars, atlasVars>>

\* handle_event(TouchStart)
TouchStart ==
    /\ ipc = "ready"
    /\ \E id \in TouchIds, position \in InputPos :
        drag' = IF IsKind(drag, "DetectPhase") /\ drag[1].touch_id # None
                THEN Some(Pinch(<<Touch(drag[1].touch_id[1],
                                        drag[1].start_position),
                                  Touch(id, position)>>))
                ELSE Some(DetectPhase(position, Some(id)))
    /\ events' = <<>>
    /\ UNCHANGED <<cursor_pos, ipc, meshVars, loadVars, atlasVars>>

\* handle_move(position, touch_id): the next drag, the events returned, and
\* whether prev_pos.unwrap() fails
\* (a Pinch event is recorded by the touches its centre, distance and angle
\* are computed from)
MovedDrag(position) ==
    IF IsKind(drag, "DetectPhase") /\ Far(drag[1].start_position, position)
    THEN Some(Camera)
    ELSE drag

MovedTouches(position, touch_id) ==
    [i \in 1 .. 2 |->
        IF Some(drag[1].touches[i].id) = touch_id
        THEN Touch(drag[1].touches[i].id, position)
        ELSE drag[1].touches[i]]

HandleMove(position, touch_id) ==
    /\ cursor_pos' = Some(position)
    /\ CASE IsKind(MovedDrag(position), "Drag") ->
                /\ drag' = MovedDrag(position)
                /\ events' = <<[kind |-> "DragMove", at |-> position]>>
                /\ ipc' = ipc
         [] IsKind(MovedDrag(position), "Camera") ->
                /\ drag' = MovedDrag(position)
                /\ IF cursor_pos = None
                   THEN events' = <<>> /\ ipc' = "panicked"
                   ELSE /\ events' = <<[kind |-> "TransformView",
                                        from |-> cursor_pos[1],
                                        to |-> position]>>
                        /\ ipc' = ipc
         [] IsKind(MovedDrag(position), "Pinch") ->
                /\ drag' = Some(Pinch(MovedTouches(position, touch_id)))
                /\ events' = <<[kind |-> "TransformView",
                                from |-> drag[1].touches,
                                to |-> MovedTouches(position, touch_id)]>>
                /\ ipc' = ipc
         [] OTHER ->
                /\ drag' = MovedDrag(position)
                /\ events' = <<>>
                /\ ipc' = ipc

\* handle_event(CursorMove)
CursorMove ==
    /\ ipc = "ready"
    /\ \E position \in InputPos : HandleMove(position, None)
    /\ UNCHANGED <<meshVars, loadVars, atlasVars>>

\* handle_event(TouchMove)
TouchMove ==
    /\ ipc = "ready"
    /\ \E id \in TouchIds, position \in InputPos :
        HandleMove(position, Some(id))
    /\ UNCHANGED <<meshVars, loadVars, atlasVars>>

\* handle_release(position): drag.take()?, then the event of what was taken
HandleRelease(position) ==
    /\ drag' = None
    /\ events' =
        IF drag = None THEN <<>>
        ELSE IF drag[1].kind = "DetectPhase"
        THEN <<[kind |-> "Click", at |-> position]>>
        ELSE IF drag[1].kind = "Drag"
        THEN <<[kind |-> "DragEnd", at |-> position]>>
        ELSE <<[kind |-> "StopTransformView"]>>

\* handle_event(MouseRelease)
MouseRelease ==
    /\ ipc = "ready"
    /\ IF cursor_pos # None
       THEN HandleRelease(cursor_pos[1])
       ELSE drag' = drag /\ events' = <<>>
    /\ UNCHANGED <<cursor_pos, ipc, meshVars, loadVars, atlasVars>>

\* handle_event(TouchEnd)
TouchEnd ==
    /\ ipc = "ready"
    /\ \E position \in InputPos : HandleRelease(position)
    /\ UNCHANGED <<cursor_pos, ipc, meshVars, loadVars, atlasVars>>

\* handle_event(Wheel): a zoom about the cursor or the window centre
Wheel ==
    /\ ipc = "ready"
    /\ \E center \in InputPos :
        events' = <<[kind |-> "TransformView",
                     from |-> IF cursor_pos # None THEN cursor_pos[1] ELSE center,
                     to |-> IF cursor_pos # None THEN cursor_pos[1] ELSE center]>>
    /\ UNCHANGED <<cursor_pos, drag, ipc, meshVars, loadVars, atlasVars>>

\* update(delta_time): in DetectPhase with the timer past max_click_time,
\* start_drag(start_position), is_draggable answering either way
Update ==
    /\ ipc = "ready"
    /\ \/ /\ IsKind(drag, "DetectPhase")
          /\ \/ /\ drag' = Some(Dragging)
                /\ events' = <<[kind |-> "DragStart",
                                at |-> drag[1].start_position]>>
             \/ /\ drag' = Some(Camera)
                /\ events' = <<>>
       \/ /\ drag' = drag
          /\ events' = <<>>
    /\ UNCHANGED <<cursor_pos, ipc, meshVars, loadVars, atlasVars>>

NextInput ==
    \/ MousePress
    \/ TouchStart
    \/ CursorMove
    \/ TouchMove
    \/ MouseRelease
    \/ TouchEnd
    \/ Wheel
    \/ Update

SpecInput == InitInput /\ [][NextInput]_vars

\* C30: in the input Controller, for every sequence of events and update
\* calls from a fresh controller, whenever handle_move runs with the drag
\* state Camera a previous cursor position is known, so prev_pos.unwrap()
\* never fails.
C30_PrevPosKnownInCamera ==
    ipc # "panicked"

====
